---------------------------- MODULE Spec2Model ----------------------------
(***************************************************************************)
(* Tank Gunner (Lamprey): the world simulation of src/world.py as a state  *)
(* machine.                                                                *)
(*                                                                         *)
(* Units.  The source computes in floating point; the model computes the   *)
(* same formulas on an integer lattice:                                    *)
(*   time    1 tick = 0.1 s      (RELOAD_TIME 5.0 s = 50 ticks)            *)
(*   length  1 unit = 0.05 m     (TANK_WIDTH 3.2 m = 64 units)             *)
(*   angle   1 unit = 0.01 deg   (MAX_ELEVATION_DEG 20.0 = 2000 units)     *)
(*   speed   length units per tick (750 m/s = 1500 units per tick)         *)
(* Every constant of src/settings.py keeps its value in these units, with  *)
(* two exceptions: GRAVITY (9.81 m/s^2 = 1.962 units/tick^2) is rounded to *)
(* 2, and the two sub-frame intervals SIM_DT and TRACER_SAMPLE_INTERVAL    *)
(* keep their numerals (2 and 15, which are milliseconds in the source)    *)
(* while counting ticks here, so a sub-step is coarser than the source's   *)
(* and a full flight is 50 sub-steps instead of 5000.                      *)
(* sin, cos and sqrt are fixed-point (1/10000) and integer approximations. *)
(***************************************************************************)
EXTENDS Integers, Sequences, FiniteSets

VARIABLES
    gun,               \* PlayerGun: elevation, traverse, reload_timer, ready, _traverse_ramp
    tanks,             \* World.tanks: sequence of EnemyTank
    shells,            \* World.shells: sequence of Shell
    explosions,        \* World.explosions
    spotter_callouts,  \* World.spotter_callouts
    score,             \* World.score
    shots_fired,       \* World.shots_fired
    pc,                \* position of the caller: "idle", or inside World.update: "shells", "finish"
    frame,             \* locals of the running World.update: dt, cur, remaining, hit, finished_shells;
                       \* where one function or object is called by itself: its arguments, self
    last               \* what the last call did: op, ret, and the events of the last sub-step

vars == <<gun, tanks, shells, explosions, spotter_callouts, score, shots_fired,
          pc, frame, last>>

----------------------------------------------------------------------------
(* settings.py *)

TRAVERSE_SPEED_DEG      == 15      \* 1.5 deg/s, in 0.01 deg per tick
TRAVERSE_SPEED_FAST_DEG == 240     \* 24.0 deg/s
TRAVERSE_RAMP_TIME      == 5       \* 0.5 s
ELEVATION_SPEED_DEG     == 40      \* 4.0 deg/s
RELOAD_TIME             == 50      \* 5.0 s
MIN_ELEVATION_DEG       == -400    \* -4.0 deg
MAX_ELEVATION_DEG       == 2000    \* 20.0 deg
INITIAL_ELEVATION_DEG   == 150     \* 1.5 deg
INITIAL_TRAVERSE_DEG    == 0
PLAYER_EYE_HEIGHT       == 44      \* 2.2 m
SHELL_MUZZLE_VELOCITY   == 1500    \* 750 m/s
GRAVITY                 == 2       \* 9.81 m/s^2 = 1.962 units/tick^2, rounded
DRAG_K                  == 9       \* 0.00018 per m = 9 per 10^6 length units
DISPERSION_STD_RAD      == 2       \* 0.00035 rad = 0.02 deg
SIM_DT                  == 2
SHELL_MAX_TIME          == 100     \* 10.0 s
TANK_LENGTH             == 130     \* 6.5 m
TANK_WIDTH              == 64      \* 3.2 m
TANK_HEIGHT             == 48      \* 2.4 m
SPAWN_RANGE_MIN         == 10000   \* 500 m
SPAWN_RANGE_MAX         == 30000   \* 1500 m
SPAWN_LATERAL_MAX       == 4000    \* 200 m
TRACER_TRAIL_LENGTH     == 8
TRACER_SAMPLE_INTERVAL  == 15
SPOTTER_DISPLAY_TIME    == 40      \* 4.0 s
SPOTTER_ROUND_TO        == 50      \* metres
SPOTTER_MIN_CORRECTION  == 10      \* metres
EXPLOSION_DURATION      == 18      \* 1.8 s

----------------------------------------------------------------------------
(* Arithmetic the source takes from Python, math and numpy. *)

Abs(a) == IF a < 0 THEN -a ELSE a
Min(a, b) == IF a < b THEN a ELSE b
Max(a, b) == IF a > b THEN a ELSE b

\* a / b for b > 0, rounded toward zero
Div(a, b) == IF a >= 0 THEN a \div b ELSE -((-a) \div b)

\* floor of the square root, by bisection on [lo, hi]
RECURSIVE SqrtBetween(_, _, _)
SqrtBetween(n, lo, hi) ==
    IF lo >= hi THEN lo
    ELSE LET mid == (lo + hi + 1) \div 2
         IN  IF mid * mid <= n THEN SqrtBetween(n, mid, hi)
                               ELSE SqrtBetween(n, lo, mid - 1)

Sqrt(n) == SqrtBetween(n, 0, 46340)

\* math.radians, from 0.01 deg to 1/10000 rad
Radians(a) == Div(a * 17453, 10000)

\* Taylor polynomials on [-pi/4, pi/4], r and the result in 1/10000
SinPoly(r) ==
    LET r2 == Div(r * r, 10000)
        r3 == Div(r2 * r, 10000)
        r5 == Div(r3 * r2, 10000)
    IN  r - Div(r3, 6) + Div(r5, 120)

CosPoly(r) ==
    LET r2 == Div(r * r, 10000)
        r4 == Div(r2 * r2, 10000)
        r6 == Div(r4 * r2, 10000)
    IN  10000 - Div(r2, 2) + Div(r4, 24) - Div(r6, 720)

\* sin and cos of an angle in [0, 90 deg]
SinQ(x) == IF x <= 4500 THEN SinPoly(Radians(x)) ELSE CosPoly(Radians(9000 - x))
CosQ(x) == IF x <= 4500 THEN CosPoly(Radians(x)) ELSE SinPoly(Radians(9000 - x))

\* math.sin, math.cos of an angle in 0.01 deg, result in 1/10000
Sin(a) ==
    LET x == a % 36000
    IN  IF x <= 9000 THEN SinQ(x)
        ELSE IF x <= 18000 THEN SinQ(18000 - x)
        ELSE IF x <= 27000 THEN -SinQ(x - 18000)
        ELSE -SinQ(36000 - x)

Cos(a) ==
    LET x == a % 36000
    IN  IF x <= 9000 THEN CosQ(x)
        ELSE IF x <= 18000 THEN -CosQ(18000 - x)
        ELSE IF x <= 27000 THEN -CosQ(x - 18000)
        ELSE CosQ(36000 - x)

vec3(x, y, z) == <<x, y, z>>
VAdd(a, b) == <<a[1] + b[1], a[2] + b[2], a[3] + b[3]>>
VSub(a, b) == <<a[1] - b[1], a[2] - b[2], a[3] - b[3]>>
Dot(a, b) == a[1] * b[1] + a[2] * b[2] + a[3] * b[3]

\* 1 for a vector whose squares fit the integers, 4 for a longer one, which is
\* measured at a quarter of its size
Scale(v) == IF Abs(v[1]) + Abs(v[2]) + Abs(v[3]) > 46000 THEN 4 ELSE 1

Shrunk(v, k) == <<Div(v[1], k), Div(v[2], k), Div(v[3], k)>>

NormOf(q, k) == k * Sqrt(Dot(q, q))

NormAt(v, k) == NormOf(Shrunk(v, k), k)

\* np.linalg.norm(v)
Norm(v) == NormAt(v, Scale(v))

ForwardOf(ce, se, ct, st) == vec3(Div(st * ce, 10000), se, Div(ct * ce, 10000))

\* the forward vector of get_view_basis, components in 1/10000
Forward(elevation, traverse) ==
    ForwardOf(Cos(elevation), Sin(elevation), Cos(traverse), Sin(traverse))

----------------------------------------------------------------------------
(* PlayerGun *)

\* the eye never moves
Eye == vec3(0, PLAYER_EYE_HEIGHT, 0)

PlayerGunInit ==
    [elevation     |-> INITIAL_ELEVATION_DEG,
     traverse      |-> INITIAL_TRAVERSE_DEG,
     reload_timer  |-> 0,
     ready         |-> TRUE,
     traverse_ramp |-> 0]

KeyNames == {"a", "d", "up", "down", "lshift", "rshift"}

\* TraverseRamp without "else: self._traverse_ramp = 0.0"
TraverseRampKept(ramp, dt, keys) ==
    LET shift_held == "lshift" \in keys \/ "rshift" \in keys
        traversing == "a" \in keys \/ "d" \in keys
    IN  IF shift_held /\ traversing
        THEN Min(ramp + dt, TRAVERSE_RAMP_TIME)
        ELSE ramp

\* PlayerGun.update, the ramp-up timer of the fast traverse
TraverseRamp(ramp, dt, keys) ==
    LET shift_held == "lshift" \in keys \/ "rshift" \in keys
        traversing == "a" \in keys \/ "d" \in keys
    IN  IF shift_held /\ traversing
        THEN Min(ramp + dt, TRAVERSE_RAMP_TIME)
        ELSE 0

\* the traverse speed in 0.01 deg per tick, interpolated by the ramp progress
TraverseSpeed(ramp) ==
    IF TRAVERSE_RAMP_TIME > 0
    THEN TRAVERSE_SPEED_DEG
         + Div((TRAVERSE_SPEED_FAST_DEG - TRAVERSE_SPEED_DEG) * ramp, TRAVERSE_RAMP_TIME)
    ELSE TRAVERSE_SPEED_FAST_DEG

Traverse(traverse, speed, dt, keys) ==
    LET t1 == IF "a" \in keys THEN traverse + speed * dt ELSE traverse
    IN  IF "d" \in keys THEN t1 - speed * dt ELSE t1

\* ClampElevation that clamps at the top only
ClampElevationTop(e) == Min(MAX_ELEVATION_DEG, e)

ClampElevation(e) == Max(MIN_ELEVATION_DEG, Min(MAX_ELEVATION_DEG, e))

Elevate(elevation, dt, keys) ==
    LET e1 == IF "up" \in keys THEN elevation + ELEVATION_SPEED_DEG * dt ELSE elevation
        e2 == IF "down" \in keys THEN e1 - ELEVATION_SPEED_DEG * dt ELSE e1
    IN  ClampElevation(e2)

\* Reload without the snap of the timer to 0
ReloadNoSnap(reload_timer, ready, dt) ==
    IF ~ready
    THEN <<reload_timer - dt, reload_timer - dt <= 0>>
    ELSE <<reload_timer, ready>>

\* Reload that is ready only once the timer has passed 0
ReloadLate(reload_timer, ready, dt) ==
    IF ~ready
    THEN IF reload_timer - dt < 0
         THEN <<0, TRUE>>
         ELSE <<reload_timer - dt, FALSE>>
    ELSE <<reload_timer, ready>>

\* the reload timer: <<reload_timer, ready>> after dt
Reload(reload_timer, ready, dt) ==
    IF ~ready
    THEN IF reload_timer - dt <= 0
         THEN <<0, TRUE>>
         ELSE <<reload_timer - dt, FALSE>>
    ELSE <<reload_timer, ready>>

\* PlayerGun.update(dt, keys_held)
GunUpdate(g, dt, keys) ==
    LET ramp == TraverseRamp(g.traverse_ramp, dt, keys)
        r    == Reload(g.reload_timer, g.ready, dt)
    IN  [elevation     |-> Elevate(g.elevation, dt, keys),
         traverse      |-> Traverse(g.traverse, TraverseSpeed(ramp), dt, keys),
         reload_timer  |-> r[1],
         ready         |-> r[2],
         traverse_ramp |-> ramp]

----------------------------------------------------------------------------
(* Shell *)

\* Shell.__init__
Shell(position, velocity) ==
    [pos         |-> position,
     vel         |-> velocity,
     alive       |-> TRUE,
     time        |-> 0,
     trail       |-> <<position>>,
     trail_timer |-> 0]

NormalizeBy(v, n) ==
    IF n > 0
    THEN vec3(Div(v[1] * 10000, n), Div(v[2] * 10000, n), Div(v[3] * 10000, n))
    ELSE v

\* normalize(v), components in 1/10000; a zero vector is returned as it is
Normalize(v) == NormalizeBy(v, Norm(v))

\* vel less dv along the unit vector n (n in 1/10000, dv in 1/100)
Decelerated(vel, n, dv) ==
    vec3(vel[1] - Div(n[1] * dv, 1000000),
         vel[2] - Div(n[2] * dv, 1000000),
         vel[3] - Div(n[3] * dv, 1000000))

\* drag_decel = DRAG_K * speed * speed, in 1/100
DragAt(vel, dt, speed) ==
    IF speed > 0
    THEN Decelerated(vel, Normalize(vel), Div(DRAG_K * speed * speed, 10000) * dt)
    ELSE vel

\* the drag step of Shell.step: deceleration DRAG_K * speed^2 against the velocity
Drag(vel, dt) == DragAt(vel, dt, Norm(vel))

Gravitate(vel, dt) == vec3(vel[1], vel[2] - GRAVITY * dt, vel[3])

\* Trail with the newest sample dropped at the cap, for "self.trail.pop(0)"
TrailDropNewest(trail, trail_timer, pos, dt) ==
    IF trail_timer + dt >= TRACER_SAMPLE_INTERVAL
    THEN LET t == Append(trail, pos)
         IN  <<IF Len(t) > TRACER_TRAIL_LENGTH THEN SubSeq(t, 1, TRACER_TRAIL_LENGTH) ELSE t, 0>>
    ELSE <<trail, trail_timer + dt>>

\* Trail with the timer tested before "self._trail_timer += dt"
TrailLate(trail, trail_timer, pos, dt) ==
    IF trail_timer >= TRACER_SAMPLE_INTERVAL
    THEN LET t == Append(trail, pos)
         IN  <<IF Len(t) > TRACER_TRAIL_LENGTH THEN Tail(t) ELSE t, 0>>
    ELSE <<trail, trail_timer + dt>>

\* the trail of Shell.step: <<trail, trail_timer>> after a step that ends at pos
Trail(trail, trail_timer, pos, dt) ==
    IF trail_timer + dt >= TRACER_SAMPLE_INTERVAL
    THEN LET t == Append(trail, pos)
         IN  <<IF Len(t) > TRACER_TRAIL_LENGTH THEN Tail(t) ELSE t, 0>>
    ELSE <<trail, trail_timer + dt>>

\* WithinMaxTime without "if self.time > SHELL_MAX_TIME: self.alive = False"
WithinAnyTime(time) == TRUE

\* whether a shell of this flight time is still flying
WithinMaxTime(time) == ~(time > SHELL_MAX_TIME)

\* the shell after a step that ends at pos with velocity vel and trail tr
ShellAt(s, dt, vel, pos, tr) ==
    [pos         |-> pos,
     vel         |-> vel,
     alive       |-> s.alive /\ WithinMaxTime(s.time + dt),
     time        |-> s.time + dt,
     trail       |-> tr[1],
     trail_timer |-> tr[2]]

ShellPlaced(s, dt, vel, pos) ==
    ShellAt(s, dt, vel, pos, Trail(s.trail, s.trail_timer, pos, dt))

\* "self.pos = self.pos + self.vel * dt"
ShellMoved(s, dt, vel) ==
    ShellPlaced(s, dt, vel,
                vec3(s.pos[1] + vel[1] * dt, s.pos[2] + vel[2] * dt, s.pos[3] + vel[3] * dt))

\* Shell.step(dt): the shell after the step; the step returns (s.pos, ShellStep(s, dt).pos)
ShellStep(s, dt) == ShellMoved(s, dt, Gravitate(Drag(s.vel, dt), dt))

\* the shell that leaves along forward: 2.0 m ahead of the eye, at the muzzle velocity
ShellAlong(forward) ==
    Shell(vec3(Eye[1] + Div(forward[1] * 40, 10000),
               Eye[2] + Div(forward[2] * 40, 10000),
               Eye[3] + Div(forward[3] * 40, 10000)),
          vec3(Div(forward[1] * SHELL_MUZZLE_VELOCITY, 10000),
               Div(forward[2] * SHELL_MUZZLE_VELOCITY, 10000),
               Div(forward[3] * SHELL_MUZZLE_VELOCITY, 10000)))

\* PlayerGun.fire() when ready: the shell fired with dispersion (de, dtr) on the two angles
FiredShell(g, de, dtr) == ShellAlong(Forward(g.elevation + de, g.traverse + dtr))

\* a fire() that does not look at ready
GunFireAlways(g, de, dtr) ==
    [fired |-> TRUE,
     gun   |-> [g EXCEPT !.ready = FALSE, !.reload_timer = RELOAD_TIME],
     shell |-> FiredShell(g, de, dtr)]

\* PlayerGun.fire(): [fired, gun, shell]; fired = FALSE is the return of None
GunFire(g, de, dtr) ==
    IF ~g.ready
    THEN [fired |-> FALSE, gun |-> g, shell |-> Shell(Eye, vec3(0, 0, 0))]
    ELSE [fired |-> TRUE,
          gun   |-> [g EXCEPT !.ready = FALSE, !.reload_timer = RELOAD_TIME],
          shell |-> FiredShell(g, de, dtr)]
----------------------------------------------------------------------------
(* EnemyTank *)

\* a tank built with its two coordinates exchanged
EnemyTankSwapped(x, z) ==
    [center    |-> vec3(z, Div(TANK_HEIGHT, 2), x),
     alive     |-> TRUE,
     destroyed |-> FALSE]

\* EnemyTank.__init__(x, z)
EnemyTank(x, z) ==
    [center    |-> vec3(x, Div(TANK_HEIGHT, 2), z),
     alive     |-> TRUE,
     destroyed |-> FALSE]

HalfExtents == vec3(Div(TANK_WIDTH, 2), Div(TANK_HEIGHT, 2), Div(TANK_LENGTH, 2))

aabb_min(tank) == VSub(tank.center, HalfExtents)
aabb_max(tank) == VAdd(tank.center, HalfExtents)

----------------------------------------------------------------------------
(* Collision *)

\* SlabAxis without "if t1 > t2: t1, t2 = t2, t1"
SlabAxisNoSwap(acc, p0i, di, mni, mxi) ==
    IF ~acc.ok THEN acc
    ELSE IF di = 0
    THEN IF p0i < mni \/ p0i > mxi THEN [acc EXCEPT !.ok = FALSE] ELSE acc
    ELSE LET den == Abs(di)
             t1  == IF di > 0 THEN mni - p0i ELSE p0i - mni
             t2  == IF di > 0 THEN mxi - p0i ELSE p0i - mxi
             lo  == IF t1 * acc.tminD > acc.tminN * den
                    THEN <<t1, den>> ELSE <<acc.tminN, acc.tminD>>
             hi  == IF t2 * acc.tmaxD < acc.tmaxN * den
                    THEN <<t2, den>> ELSE <<acc.tmaxN, acc.tmaxD>>
         IN  [ok    |-> ~(lo[1] * hi[2] > hi[1] * lo[2]),
              tminN |-> lo[1], tminD |-> lo[2],
              tmaxN |-> hi[1], tmaxD |-> hi[2]]

\* One axis of the slab method.  t is the exact fraction tminN / tminD .. tmaxN / tmaxD
\* (denominators positive); ok = FALSE is the return of None.
SlabAxis(acc, p0i, di, mni, mxi) ==
    IF ~acc.ok THEN acc
    ELSE IF di = 0
    THEN IF p0i < mni \/ p0i > mxi THEN [acc EXCEPT !.ok = FALSE] ELSE acc
    ELSE LET den == Abs(di)
             a   == IF di > 0 THEN mni - p0i ELSE p0i - mni
             b   == IF di > 0 THEN mxi - p0i ELSE p0i - mxi
             t1  == IF a > b THEN b ELSE a
             t2  == IF a > b THEN a ELSE b
             lo  == IF t1 * acc.tminD > acc.tminN * den
                    THEN <<t1, den>> ELSE <<acc.tminN, acc.tminD>>
             hi  == IF t2 * acc.tmaxD < acc.tmaxN * den
                    THEN <<t2, den>> ELSE <<acc.tmaxN, acc.tmaxD>>
         IN  [ok    |-> ~(lo[1] * hi[2] > hi[1] * lo[2]),
              tminN |-> lo[1], tminD |-> lo[2],
              tmaxN |-> hi[1], tmaxD |-> hi[2]]

\* segment_aabb_intersect(p0, p1, aabb_min, aabb_max): [hit, pt]
segment_aabb_intersect(p0, p1, mn, mx) ==
    LET d  == VSub(p1, p0)
        a0 == [ok |-> TRUE, tminN |-> 0, tminD |-> 1, tmaxN |-> 1, tmaxD |-> 1]
        a1 == SlabAxis(a0, p0[1], d[1], mn[1], mx[1])
        a2 == SlabAxis(a1, p0[2], d[2], mn[2], mx[2])
        a3 == SlabAxis(a2, p0[3], d[3], mn[3], mx[3])
    IN  IF a3.ok
        THEN [hit |-> TRUE,
              pt  |-> vec3(p0[1] + Div(d[1] * a3.tminN, a3.tminD),
                           p0[2] + Div(d[2] * a3.tminN, a3.tminD),
                           p0[3] + Div(d[3] * a3.tminN, a3.tminD))]
        ELSE [hit |-> FALSE, pt |-> p0]

\* check_ground_hit with prev_pos and curr_pos exchanged in the test: the crossing upwards
check_ground_hit_rising(prev_pos, curr_pos) ==
    IF prev_pos[2] <= 0 /\ curr_pos[2] > 0
    THEN LET den == prev_pos[2] - curr_pos[2]
         IN  [hit |-> TRUE,
              pt  |-> vec3(prev_pos[1] + Div((curr_pos[1] - prev_pos[1]) * prev_pos[2], den),
                           0,
                           prev_pos[3] + Div((curr_pos[3] - prev_pos[3]) * prev_pos[2], den))]
    ELSE [hit |-> FALSE, pt |-> prev_pos]

\* check_ground_hit with "curr_pos[1] < 0.0" for "curr_pos[1] <= 0.0"
check_ground_hit_below(prev_pos, curr_pos) ==
    IF curr_pos[2] < 0 /\ prev_pos[2] > 0
    THEN LET den == prev_pos[2] - curr_pos[2]
         IN  [hit |-> TRUE,
              pt  |-> vec3(prev_pos[1] + Div((curr_pos[1] - prev_pos[1]) * prev_pos[2], den),
                           0,
                           prev_pos[3] + Div((curr_pos[3] - prev_pos[3]) * prev_pos[2], den))]
    ELSE [hit |-> FALSE, pt |-> prev_pos]

\* check_ground_hit(prev_pos, curr_pos): [hit, pt]
check_ground_hit(prev_pos, curr_pos) ==
    IF curr_pos[2] <= 0 /\ prev_pos[2] > 0
    THEN LET den == prev_pos[2] - curr_pos[2]
         IN  [hit |-> TRUE,
              pt  |-> vec3(prev_pos[1] + Div((curr_pos[1] - prev_pos[1]) * prev_pos[2], den),
                           0,
                           prev_pos[3] + Div((curr_pos[3] - prev_pos[3]) * prev_pos[2], den))]
    ELSE [hit |-> FALSE, pt |-> prev_pos]

----------------------------------------------------------------------------
(* World: helpers *)

\* World._nearest_live_tank over tks[i..]: the index of the nearest alive tank, 0 for None
RECURSIVE NearestFrom(_, _, _, _)
NearestFrom(tks, i, best, best_dist) ==
    IF i > Len(tks) THEN best
    ELSE LET d == Norm(VSub(tks[i].center, Eye))
         IN  IF tks[i].alive /\ (best = 0 \/ d < best_dist)
             THEN NearestFrom(tks, i + 1, i, d)
             ELSE NearestFrom(tks, i + 1, best, best_dist)

\* the nearest tank, alive or not
nearest_tank(tks) ==
    IF tks = <<>> THEN 0
    ELSE CHOOSE i \in 1..Len(tks) :
             \A j \in 1..Len(tks) :
                 Norm(VSub(tks[i].center, Eye)) < Norm(VSub(tks[j].center, Eye))
                 \/ (Norm(VSub(tks[i].center, Eye)) = Norm(VSub(tks[j].center, Eye))
                     /\ i <= j)

nearest_live_tank(tks) == NearestFrom(tks, 1, 0, 0)

\* int(a / b) in place of round(a / b)
Truncate(a, b) == a \div b

\* Python's round(a / b) for a >= 0, b > 0: to the nearest integer, a tie to the even one
Round(a, b) ==
    LET q == a \div b
        r == a % b
    IN  IF 2 * r < b THEN q
        ELSE IF 2 * r > b THEN q + 1
        ELSE IF q % 2 = 0 THEN q ELSE q + 1

\* one line of a miss callout: err in length units, the distance reported in metres
CorrectionLine(err, on, over, under) ==
    IF Abs(err) < SPOTTER_MIN_CORRECTION * 20
    THEN [text |-> on, m |-> 0]
    ELSE [text |-> IF err > 0 THEN over ELSE under,
          m    |-> Max(SPOTTER_ROUND_TO,
                       Round(Abs(err), SPOTTER_ROUND_TO * 20) * SPOTTER_ROUND_TO)]

HitCallout ==
    [lines    |-> <<[text |-> "TARGET HIT!", m |-> 0]>>,
     timer    |-> SPOTTER_DISPLAY_TIME,
     max_time |-> SPOTTER_DISPLAY_TIME,
     is_hit   |-> TRUE]

\* a miss branch that reports nothing
MissCalloutSilent(tks, impact_pos) == <<>>

\* a miss callout with the lateral line put first
MissAlongLateralFirst(delta, forward_dir) ==
    <<[lines    |-> <<CorrectionLine(Div(Dot(delta, vec3(forward_dir[3], 0,
                                                         -forward_dir[1])), 10000),
                                     "LINE: ON", "RIGHT", "LEFT"),
                      CorrectionLine(Div(Dot(delta, forward_dir), 10000),
                                     "RANGE: ON", "LONG", "SHORT")>>,
       timer    |-> SPOTTER_DISPLAY_TIME,
       max_time |-> SPOTTER_DISPLAY_TIME,
       is_hit   |-> FALSE]>>

\* a miss callout with right_dir = (-forward_dir[2], 0, forward_dir[0])
MissAlongMirrored(delta, forward_dir) ==
    <<[lines    |-> <<CorrectionLine(Div(Dot(delta, forward_dir), 10000),
                                     "RANGE: ON", "LONG", "SHORT"),
                      CorrectionLine(Div(Dot(delta, vec3(-forward_dir[3], 0,
                                                         forward_dir[1])), 10000),
                                     "LINE: ON", "RIGHT", "LEFT")>>,
       timer    |-> SPOTTER_DISPLAY_TIME,
       max_time |-> SPOTTER_DISPLAY_TIME,
       is_hit   |-> FALSE]>>

\* the miss callout, the impact at delta from the target along forward_dir (in 1/10000)
MissAlong(delta, forward_dir) ==
    <<[lines    |-> <<CorrectionLine(Div(Dot(delta, forward_dir), 10000),
                                     "RANGE: ON", "LONG", "SHORT"),
                      CorrectionLine(Div(Dot(delta, vec3(forward_dir[3], 0,
                                                         -forward_dir[1])), 10000),
                                     "LINE: ON", "RIGHT", "LEFT")>>,
       timer    |-> SPOTTER_DISPLAY_TIME,
       max_time |-> SPOTTER_DISPLAY_TIME,
       is_hit   |-> FALSE]>>

\* "if target_range < 1.0: return"
MissAtRange(delta, to_target, target_range) ==
    IF target_range < 20 THEN <<>>
    ELSE MissAlong(delta, vec3(Div(to_target[1] * 10000, target_range), 0,
                               Div(to_target[3] * 10000, target_range)))

\* both points on the ground plane
MissFrom(impact_ground, target_center) ==
    MissAtRange(VSub(impact_ground, target_center),
                vec3(target_center[1] - Eye[1], 0, target_center[3] - Eye[3]),
                Norm(vec3(target_center[1] - Eye[1], 0, target_center[3] - Eye[3])))

\* "if target is None: return"
MissAt(tks, impact_pos, target) ==
    IF target = 0 THEN <<>>
    ELSE MissFrom(vec3(impact_pos[1], 0, impact_pos[3]),
                  vec3(tks[target].center[1], 0, tks[target].center[3]))

\* the miss branch of World._generate_spotter_callout: the callouts it appends
MissCallout(tks, impact_pos) == MissAt(tks, impact_pos, nearest_live_tank(tks))

\* a callout made without looking at is_hit
generate_miss_callout(tks, impact_pos, is_hit) == MissCallout(tks, impact_pos)

\* World._generate_spotter_callout(impact_pos, is_hit): the callouts it appends
generate_spotter_callout(tks, impact_pos, is_hit) ==
    IF is_hit THEN <<HitCallout>> ELSE MissCallout(tks, impact_pos)

Explosion(pos, is_hit) ==
    [pos      |-> pos,
     is_hit   |-> is_hit,
     timer    |-> EXPLOSION_DURATION,
     max_time |-> EXPLOSION_DURATION]

\* the first alive tank, in list order from i, whose box the segment prev -> curr meets; 0 for none
RECURSIVE FirstHitFrom(_, _, _, _)
FirstHitFrom(tks, i, prev, curr) ==
    IF i > Len(tks) THEN 0
    ELSE IF tks[i].alive
            /\ segment_aabb_intersect(prev, curr, aabb_min(tks[i]), aabb_max(tks[i])).hit
    THEN i
    ELSE FirstHitFrom(tks, i + 1, prev, curr)

FirstHit(tks, prev, curr) == FirstHitFrom(tks, 1, prev, curr)

\* Age with "timer >= 0" for "timer > 0" in the filter
RECURSIVE AgeKeepingZero(_, _)
AgeKeepingZero(effects, dt) ==
    IF effects = <<>> THEN <<>>
    ELSE LET e == [Head(effects) EXCEPT !.timer = @ - dt]
         IN  IF e.timer >= 0 THEN <<e>> \o AgeKeepingZero(Tail(effects), dt)
             ELSE AgeKeepingZero(Tail(effects), dt)

\* the effects whose timer, after dt more, is still positive
RECURSIVE Age(_, _)
Age(effects, dt) ==
    IF effects = <<>> THEN <<>>
    ELSE LET e == [Head(effects) EXCEPT !.timer = @ - dt]
         IN  IF e.timer > 0 THEN <<e>> \o Age(Tail(effects), dt)
             ELSE Age(Tail(effects), dt)

\* shs without the shells that follow the indices in finished
RECURSIVE RemoveAfterFinished(_, _, _)
RemoveAfterFinished(shs, finished, i) ==
    IF i > Len(shs) THEN <<>>
    ELSE IF (i - 1) \in finished THEN RemoveAfterFinished(shs, finished, i + 1)
    ELSE <<shs[i]>> \o RemoveAfterFinished(shs, finished, i + 1)

\* shs without the shells at the indices in finished
RECURSIVE RemoveFinished(_, _, _)
RemoveFinished(shs, finished, i) ==
    IF i > Len(shs) THEN <<>>
    ELSE IF i \in finished THEN RemoveFinished(shs, finished, i + 1)
    ELSE <<shs[i]>> \o RemoveFinished(shs, finished, i + 1)

\* the respawn condition turned round
SomeAlive(tks) == \E i \in 1..Len(tks) : tks[i].alive

\* "if all(not t.alive for t in self.tanks)"
AllDead(tks) == \A i \in 1..Len(tks) : ~tks[i].alive

----------------------------------------------------------------------------
(* Inputs and bounds *)

\* the calls World.update(dt, keys_held) that are made: frame time in ticks, held keys
Frames ==
    {[dt |-> 0,  keys |-> {}],
     [dt |-> 3,  keys |-> {"down"}],
     [dt |-> 50, keys |-> {}],
     [dt |-> 50, keys |-> {"up"}]}

\* values of the two random.gauss(0, DISPERSION_STD_RAD) of a shot: <<elevation, traverse>>
Dispersions ==
    {<<0, 0>>,
     <<DISPERSION_STD_RAD, -DISPERSION_STD_RAD>>}

\* values of the two random.uniform of a spawn: <<x, z>>
Spawns ==
    {<<0, 12000>>,
     <<-SPAWN_LATERAL_MAX, SPAWN_RANGE_MIN>>,
     <<SPAWN_LATERAL_MAX, SPAWN_RANGE_MAX>>}

\* calls of World.fire() that produce a shell, per behaviour
MaxShots == 2

\* calls of World.update(), per behaviour
MaxFrames == 4

----------------------------------------------------------------------------
(* World *)

NoFrame == [dt |-> 0, cur |-> 0, remaining |-> 0, hit |-> FALSE, finished_shells |-> {}]

NoEvent == [stepped |-> FALSE, tank_hit |-> FALSE, ground_hit |-> FALSE,
            timed_out |-> FALSE, target |-> FALSE]

\* last before any call.  op: the call or step made last; ret: what fire() returned;
\* dt, keys: the arguments of the last update() (below: its dt was positive and below
\* the resolution of the clocks), elevation: the gun's elevation when it
\* was called; since_shot: the dt passed to update() since the last shot (RELOAD_TIME
\* stands for that or more); frames: the updates made; removed: the shells the last
\* update() removed; event: what the last sub-step met; steps: the calls of step() made
\* on the current shell by the running update(); start: the flight time that shell had
\* when its sub-step loop began
NoCall == [op |-> "init", ret |-> FALSE, dt |-> 0, keys |-> {}, below |-> FALSE,
           elevation |-> INITIAL_ELEVATION_DEG, since_shot |-> 0,
           frames |-> 0, removed |-> 0, event |-> NoEvent, steps |-> 0, start |-> 0]

\* World.__init__
Init ==
    /\ gun = PlayerGunInit
    /\ \E xz \in Spawns : tanks = <<EnemyTank(xz[1], xz[2])>>
    /\ shells = <<>>
    /\ explosions = <<>>
    /\ spotter_callouts = <<>>
    /\ score = 0
    /\ shots_fired = 0
    /\ pc = "idle"
    /\ frame = NoFrame
    /\ last = NoCall

\* World.fire()
Fire ==
    /\ pc = "idle"
    /\ shots_fired < MaxShots
    /\ \E d \in Dispersions :
         LET r == GunFire(gun, d[1], d[2])
         IN  /\ gun' = r.gun
             /\ shells' = IF r.fired THEN Append(shells, r.shell) ELSE shells
             /\ shots_fired' = IF r.fired THEN shots_fired + 1 ELSE shots_fired
             /\ last' = [last EXCEPT !.op = "fire", !.ret = r.fired,
                                     !.since_shot = IF r.fired THEN 0 ELSE @,
                                     !.event = NoEvent]
    /\ UNCHANGED <<tanks, explosions, spotter_callouts, score, pc, frame>>

\* World.update(dt, keys_held), up to the loop over the shells
UpdateWith(calls) ==
    /\ pc = "idle"
    /\ last.frames < MaxFrames
    /\ \E f \in calls :
         /\ gun' = GunUpdate(gun, f.dt, f.keys)
         /\ frame' = [dt |-> f.dt, cur |-> 1, remaining |-> 0, hit |-> FALSE,
                      finished_shells |-> {}]
         /\ last' = [last EXCEPT !.op = "update", !.dt = f.dt, !.keys = f.keys,
                                 !.elevation = gun.elevation,
                                 !.since_shot = Min(@ + f.dt, RELOAD_TIME),
                                 !.frames = @ + 1, !.event = NoEvent]
    /\ pc' = "shells"
    /\ UNCHANGED <<tanks, shells, explosions, spotter_callouts, score, shots_fired>>

UpdateBegin == UpdateWith(Frames)

\* the head of "for shell in self.shells"
NextShell ==
    /\ pc = "shells"
    /\ IF frame.cur > Len(shells)
       THEN /\ pc' = "finish"
            /\ frame' = frame
       ELSE IF ~shells[frame.cur].alive
       THEN /\ pc' = "shells"
            /\ frame' = [frame EXCEPT !.finished_shells = @ \cup {frame.cur},
                                      !.cur = @ + 1]
       ELSE /\ pc' = "steps"
            /\ frame' = [frame EXCEPT !.remaining = frame.dt, !.hit = FALSE]
    /\ last' = [last EXCEPT !.op = "shell", !.event = NoEvent, !.steps = 0,
                            !.start = IF frame.cur <= Len(shells)
                                      THEN shells[frame.cur].time ELSE 0]
    /\ UNCHANGED <<gun, tanks, shells, explosions, spotter_callouts, score, shots_fired>>

\* Stepping with "while remaining > 0" for "while remaining > 0 and shell.alive"
SteppingWhileRemaining ==
    /\ pc = "steps"
    /\ frame.remaining > 0
    /\ ~frame.hit

\* the condition of "while remaining > 0 and shell.alive", false too after the break
Stepping ==
    /\ pc = "steps"
    /\ frame.remaining > 0
    /\ shells[frame.cur].alive
    /\ ~frame.hit

\* Stepped with "step_dt = SIM_DT" for "step_dt = min(SIM_DT, remaining)"
SteppedWhole == ShellStep(shells[frame.cur], SIM_DT)

\* the shell of the sub-step to come, after "shell.step(step_dt)"
Stepped == ShellStep(shells[frame.cur], Min(SIM_DT, frame.remaining))

\* the tank the sub-step to come hits (0: none)
StepTank == FirstHit(tanks, shells[frame.cur].pos, Stepped.pos)

\* the ground check of the sub-step to come
StepGround == check_ground_hit(shells[frame.cur].pos, Stepped.pos)

\* TankHit without "shell.alive = False"
TankHitFlyingOn(stepped, tank, hit_pt) ==
    /\ tanks' = [tanks EXCEPT ![tank].alive = FALSE, ![tank].destroyed = TRUE]
    /\ score' = score + 1
    /\ explosions' = Append(explosions, Explosion(hit_pt, TRUE))
    /\ spotter_callouts' =
           spotter_callouts \o generate_spotter_callout(tanks', hit_pt, TRUE)
    /\ shells' = [shells EXCEPT ![frame.cur] = stepped]
    /\ frame' = [frame EXCEPT !.remaining = @ - Min(SIM_DT, frame.remaining),
                              !.hit = TRUE]
    /\ last' = [last EXCEPT !.op = "step", !.steps = @ + 1,
                            !.event = [stepped |-> TRUE, tank_hit |-> TRUE,
                                       ground_hit |-> FALSE,
                                       timed_out |-> ~stepped.alive,
                                       target |-> TRUE]]

\* the sub-step that hits tank at hit_pt
TankHit(stepped, tank, hit_pt) ==
    /\ tanks' = [tanks EXCEPT ![tank].alive = FALSE, ![tank].destroyed = TRUE]
    /\ score' = score + 1
    /\ explosions' = Append(explosions, Explosion(hit_pt, TRUE))
    /\ spotter_callouts' =
           spotter_callouts \o generate_spotter_callout(tanks', hit_pt, TRUE)
    /\ shells' = [shells EXCEPT ![frame.cur] = [stepped EXCEPT !.alive = FALSE]]
    /\ frame' = [frame EXCEPT !.remaining = @ - Min(SIM_DT, frame.remaining),
                              !.hit = TRUE]
    /\ last' = [last EXCEPT !.op = "step", !.steps = @ + 1,
                            !.event = [stepped |-> TRUE, tank_hit |-> TRUE,
                                       ground_hit |-> FALSE,
                                       timed_out |-> ~stepped.alive,
                                       target |-> TRUE]]

\* the sub-step that hits no tank and crosses the ground at ground_pt
GroundHit(stepped, ground_pt) ==
    /\ explosions' = Append(explosions, Explosion(ground_pt, FALSE))
    /\ spotter_callouts' =
           spotter_callouts \o generate_spotter_callout(tanks, ground_pt, FALSE)
    /\ shells' = [shells EXCEPT ![frame.cur] = [stepped EXCEPT !.alive = FALSE]]
    /\ frame' = [frame EXCEPT !.remaining = @ - Min(SIM_DT, frame.remaining)]
    /\ last' = [last EXCEPT !.op = "step", !.steps = @ + 1,
                            !.event = [stepped |-> TRUE, tank_hit |-> FALSE,
                                       ground_hit |-> TRUE,
                                       timed_out |-> ~stepped.alive,
                                       target |-> nearest_live_tank(tanks) # 0]]
    /\ UNCHANGED <<tanks, score>>

\* the sub-step that hits nothing
Flight(stepped) ==
    /\ shells' = [shells EXCEPT ![frame.cur] = stepped]
    /\ frame' = [frame EXCEPT !.remaining = @ - Min(SIM_DT, frame.remaining)]
    /\ last' = [last EXCEPT !.op = "step", !.steps = @ + 1,
                            !.event = [stepped |-> TRUE, tank_hit |-> FALSE,
                                       ground_hit |-> FALSE,
                                       timed_out |-> ~stepped.alive,
                                       target |-> nearest_live_tank(tanks) # 0]]
    /\ UNCHANGED <<tanks, score, explosions, spotter_callouts>>

\* the tank check, then the ground check, of a sub-step from prev to stepped.pos
SubStepAt(prev, stepped, tank, ground) ==
    IF tank # 0
    THEN TankHit(stepped, tank,
                 segment_aabb_intersect(prev, stepped.pos, aabb_min(tanks[tank]),
                                        aabb_max(tanks[tank])).pt)
    ELSE IF ground.hit
    THEN GroundHit(stepped, ground.pt)
    ELSE Flight(stepped)

\* one pass of "while remaining > 0 and shell.alive": a step, the tank check, the ground check
SubStep ==
    /\ Stepping
    /\ SubStepAt(shells[frame.cur].pos, Stepped, StepTank, StepGround)
    /\ UNCHANGED <<gun, shots_fired, pc>>

\* the exit of the while loop (its condition is false, or a break), and
\* "if not shell.alive: finished_shells.append(shell)"
EndShell ==
    /\ pc = "steps"
    /\ ~Stepping
    /\ frame' = [frame EXCEPT
                   !.finished_shells = IF ~shells[frame.cur].alive
                                       THEN @ \cup {frame.cur} ELSE @,
                   !.cur = @ + 1]
    /\ pc' = "shells"
    /\ last' = [last EXCEPT !.op = "shell", !.event = NoEvent]
    /\ UNCHANGED <<gun, tanks, shells, explosions, spotter_callouts, score, shots_fired>>

\* the rest of World.update: the finished shells removed, the effects aged, the respawn
Finish ==
    /\ pc = "finish"
    /\ shells' = RemoveFinished(shells, frame.finished_shells, 1)
    /\ explosions' = Age(explosions, frame.dt)
    /\ spotter_callouts' = Age(spotter_callouts, frame.dt)
    /\ IF AllDead(tanks)
       THEN \E xz \in Spawns : tanks' = <<EnemyTank(xz[1], xz[2])>>
       ELSE tanks' = tanks
    /\ pc' = "idle"
    /\ frame' = NoFrame
    /\ last' = [last EXCEPT !.op = "updated", !.event = NoEvent, !.steps = 0, !.start = 0,
                            !.removed = Cardinality(frame.finished_shells)]
    /\ UNCHANGED <<gun, score, shots_fired>>

Next == Fire \/ UpdateBegin \/ NextShell \/ SubStep \/ EndShell \/ Finish

Spec == Init /\ [][Next]_vars

----------------------------------------------------------------------------
(* The gun alone: PlayerGun.fire() and PlayerGun.update(dt, keys_held) called on a gun *)

\* the calls PlayerGun.update(dt, keys_held) that are made
GunFrames ==
    [dt : {0, 20, 50}, keys : {{}, {"up"}, {"down"}, {"up", "down"}}]
    \cup [dt : {5}, keys : {{"a"}, {"d", "lshift"}, {"a", "d", "rshift"}}]

\* the traverse is kept within this many 0.01 deg of straight ahead
MaxTraverse == 1200

\* a gun in a world whose first tank stands straight ahead
GunInit == Init /\ tanks[1].center[1] = 0

GunFireCall ==
    /\ pc = "idle"
    /\ \E d \in Dispersions :
         LET r == GunFire(gun, d[1], d[2])
         IN  /\ gun' = r.gun
             /\ last' = [last EXCEPT !.op = "fire", !.ret = r.fired,
                                     !.since_shot = IF r.fired THEN 0 ELSE @]
    /\ UNCHANGED <<tanks, shells, explosions, spotter_callouts, score, shots_fired,
                   pc, frame>>

GunUpdateCall ==
    /\ pc = "idle"
    /\ \E f \in GunFrames :
         /\ gun' = GunUpdate(gun, f.dt, f.keys)
         /\ Abs(gun'.traverse) <= MaxTraverse
         /\ last' = [last EXCEPT !.op = "update", !.dt = f.dt, !.keys = f.keys,
                                 !.elevation = gun.elevation,
                                 !.since_shot = Min(@ + f.dt, RELOAD_TIME)]
    /\ UNCHANGED <<tanks, shells, explosions, spotter_callouts, score, shots_fired,
                   pc, frame>>

GunNext == GunFireCall \/ GunUpdateCall

SpecGun == GunInit /\ [][GunNext]_vars

----------------------------------------------------------------------------
(* A world whose caller has set world.tanks itself, as a test fixture does, before the *)
(* first call: no tank at all, or one tank on the line of fire beyond the spawn area  *)

ArrangedTanks == {<<>>, <<EnemyTank(0, 67400)>>}

\* the calls World.update(dt, keys_held) that are made
ArrangedFrames ==
    {[dt |-> 3,  keys |-> {"up"}],
     [dt |-> 50, keys |-> {"down"}],
     [dt |-> 50, keys |-> {}]}

ArrangedInit ==
    /\ gun = PlayerGunInit
    /\ tanks \in ArrangedTanks
    /\ shells = <<>>
    /\ explosions = <<>>
    /\ spotter_callouts = <<>>
    /\ score = 0
    /\ shots_fired = 0
    /\ pc = "idle"
    /\ frame = NoFrame
    /\ last = NoCall

ArrangedUpdateBegin == UpdateWith(ArrangedFrames)

ArrangedNext == Fire \/ ArrangedUpdateBegin \/ NextShell \/ SubStep \/ EndShell \/ Finish

SpecArranged == ArrangedInit /\ [][ArrangedNext]_vars

----------------------------------------------------------------------------
(* main(): the game loop of src/main.py around one World.  An iteration handles the   *)
(* events (SPACE calls world.fire()), calls world.update(dt, keys), then reads        *)
(* world.gun.is_traversing for the audio.                                             *)

\* the attributes of a PlayerGun object: those __init__ sets, and the methods of the class
PlayerGunAttributes == DOMAIN PlayerGunInit \cup {"eye", "update", "fire", "get_view"}

\* the frames of main: dt = min(clock.tick(FPS) / 1000.0, 0.05) is less than one tick
MainFrames == [dt : {0}, keys : {{}, {"a"}, {"d", "lshift"}, {"up"}}]

\* "elif event.key == pygame.K_SPACE: world.fire()"
MainFire == last.op # "updated" /\ Fire

\* "world.update(dt, keys)"
MainUpdateBegin == last.op # "updated" /\ UpdateWith(MainFrames)

\* "audio.set_active("traverse", world.gun.is_traversing)": the argument is read first;
\* reading an attribute the object does not have raises AttributeError, which ends main
MainAudio ==
    /\ pc = "idle"
    /\ last.op = "updated"
    /\ IF "is_traversing" \in PlayerGunAttributes
       THEN /\ last' = [last EXCEPT !.op = "audio", !.ret = gun["is_traversing"]]
            /\ pc' = pc
       ELSE /\ pc' = "AttributeError"
            /\ last' = last
    /\ UNCHANGED <<gun, tanks, shells, explosions, spotter_callouts, score, shots_fired,
                   frame>>

\* with dt less than a tick the sub-step loop of update makes no pass
MainNext == MainFire \/ MainUpdateBegin \/ NextShell \/ EndShell \/ Finish \/ MainAudio

SpecMain == Init /\ [][MainNext]_vars

----------------------------------------------------------------------------
(* World._generate_spotter_callout(impact_pos, is_hit) called on a world whose tank *)
(* stands straight ahead, so that the range error of an impact is its Z offset from *)
(* the tank and the lateral error its X offset                                      *)

\* the impact points given: 5 m apart in range around the tank, and the errors of
\* 37 m, 50 m +/- 0.05 m and 125 m +/- 0.05 m
Impacts ==
    {vec3(x, 0, 12000 + dz) :
        x \in {-2500, -740, 0, 100, 1500},
        dz \in {100 * k : k \in -36..36} \cup {-740, 740, 999, 1001, 2499, 2501}}

\* calls of _generate_spotter_callout, per behaviour
MaxCallouts == 1

SpotterCall ==
    /\ pc = "idle"
    /\ Len(spotter_callouts) < MaxCallouts
    /\ \E p \in Impacts, h \in BOOLEAN :
         /\ spotter_callouts' = spotter_callouts \o generate_spotter_callout(tanks, p, h)
         /\ frame' = [impact_pos |-> p, is_hit |-> h]
    /\ last' = [last EXCEPT !.op = "callout"]
    /\ UNCHANGED <<gun, tanks, shells, explosions, score, shots_fired, pc>>

SpecSpotter == GunInit /\ [][SpotterCall]_vars

----------------------------------------------------------------------------
(* The pure functions of src/world.py, each called once on arguments drawn from a *)
(* bounded set: frame holds the arguments, last.ret the value returned            *)

\* a world at rest around a call with arguments drawn from inputs
CallInit(inputs) ==
    /\ gun = PlayerGunInit
    /\ tanks = <<EnemyTank(0, 12000)>>
    /\ shells = <<>>
    /\ explosions = <<>>
    /\ spotter_callouts = <<>>
    /\ score = 0
    /\ shots_fired = 0
    /\ pc = "idle"
    /\ frame \in inputs
    /\ last = NoCall

\* the call returns value
Return(op, value) ==
    /\ last.op = "init"
    /\ last' = [last EXCEPT !.op = op, !.ret = value]
    /\ UNCHANGED <<gun, tanks, shells, explosions, spotter_callouts, score, shots_fired,
                   pc, frame>>

\* segment end points: inside, on the faces and outside of the box (-1,-1,-1)..(1,1,1)
SegmentPoints == {vec3(x, y, z) : x \in {-5, -1, 0, 2, 5}, y \in {-5, -1, 0, 2, 5},
                                  z \in {-5, -1, 0, 2, 5}}

SegmentInit ==
    CallInit([p0 : SegmentPoints, p1 : SegmentPoints,
              aabb_min : {vec3(-1, -1, -1)}, aabb_max : {vec3(1, 1, 1)}])

SegmentCall ==
    Return("segment_aabb_intersect",
           segment_aabb_intersect(frame.p0, frame.p1, frame.aabb_min, frame.aabb_max))

SpecSegment == SegmentInit /\ [][SegmentCall]_vars

----------------------------------------------------------------------------
(* check_ground_hit called by itself *)

\* positions above, on and below the ground
GroundPoints == {vec3(x, y, z) : x \in {-3, 0, 3}, y \in {-3, -1, 0, 1, 2}, z \in {0, 6}}

GroundInit == CallInit([prev_pos : GroundPoints, curr_pos : GroundPoints])

GroundCall ==
    Return("check_ground_hit", check_ground_hit(frame.prev_pos, frame.curr_pos))

SpecGround == GroundInit /\ [][GroundCall]_vars

----------------------------------------------------------------------------
(* Projection helpers called by themselves *)

SIGHT_RADIUS  == 250     \* pixels
SIGHT_FOV_DEG == 1200    \* 12.0 deg

\* SIGHT_RADIUS / math.tan(SIGHT_FOV_RAD / 2.0), in pixels
SIGHT_FOCAL == Div(SIGHT_RADIUS * Cos(SIGHT_FOV_DEG \div 2), Sin(SIGHT_FOV_DEG \div 2))

\* np.cross of two vectors with components in 1/10000
Cross(a, b) ==
    vec3(Div(a[2] * b[3] - a[3] * b[2], 10000),
         Div(a[3] * b[1] - a[1] * b[3], 10000),
         Div(a[1] * b[2] - a[2] * b[1], 10000))

Times(v, k) == <<v[1] * k, v[2] * k, v[3] * k>>

world_up == vec3(0, 10000, 0)

BasisWith(forward, right) ==
    [forward |-> forward, right |-> right, up |-> Cross(right, forward)]

BasisAlong(forward) == BasisWith(forward, Normalize(Cross(forward, world_up)))

\* get_view_basis, angles in 0.01 deg, components of the vectors in 1/10000
get_view_basis(elevation_rad, traverse_rad) ==
    BasisAlong(Forward(elevation_rad, traverse_rad))

\* every degree of elevation the gun can have, every 7.5 deg of traverse
BasisAngles ==
    [elevation_rad : {100 * k : k \in (MIN_ELEVATION_DEG \div 100)..(MAX_ELEVATION_DEG \div 100)},
     traverse_rad  : {750 * k : k \in -24..24}]

BasisInit == CallInit(BasisAngles)

BasisCall ==
    Return("get_view_basis", get_view_basis(frame.elevation_rad, frame.traverse_rad))

SpecBasis == BasisInit /\ [][BasisCall]_vars

NoProjection == [visible |-> FALSE, sx |-> 0, sy |-> 0]

Projected(x, y, z) ==
    [visible |-> TRUE,
     sx |-> Div(Div(x, 10000) * SIGHT_FOCAL, Div(z, 10000)),
     sy |-> Div((-Div(y, 10000)) * SIGHT_FOCAL, Div(z, 10000))]

\* project_to_sight with "z <= 0.0" for "z < 0.5"
ProjectedFromFront(delta, forward, right, up) ==
    IF Dot(delta, forward) <= 0
    THEN NoProjection
    ELSE Projected(Dot(delta, right), Dot(delta, up), Dot(delta, forward))

\* z < 0.5 returns None; positions in 1/40000 m, so that Dot(delta, forward) is in
\* 1/(4 * 10^8) m and 0.5 m is 2 * 10^8
ProjectedFrom(delta, forward, right, up) ==
    IF Dot(delta, forward) < 200000000
    THEN NoProjection
    ELSE Projected(Dot(delta, right), Dot(delta, up), Dot(delta, forward))

\* project_to_sight: the offsets from the sight centre in whole pixels
project_to_sight(point_3d, eye_pos, forward, right, up) ==
    ProjectedFrom(VSub(point_3d, eye_pos), forward, right, up)

\* the eye in 1/40000 m
SightEye == Times(Eye, 2000)

SightBases ==
    {get_view_basis(e, t) : e \in {MIN_ELEVATION_DEG, 0, INITIAL_ELEVATION_DEG, MAX_ELEVATION_DEG},
                            t \in {-4500, 0, 1500, 9000, 18000}}

\* points k quarters of a metre ahead of the eye (behind it for k < 0) and
\* j quarters of a metre to the side
SightCalls ==
    {[point_3d |-> VAdd(SightEye, VAdd(Times(b.forward, k), Times(b.right, j))),
      eye_pos  |-> SightEye,
      forward  |-> b.forward,
      right    |-> b.right,
      up       |-> b.up] : b \in SightBases, k \in -4..16, j \in {-3, 0, 3}}

SightInit == CallInit(SightCalls)

SightCall ==
    Return("project_to_sight",
           project_to_sight(frame.point_3d, frame.eye_pos, frame.forward, frame.right, frame.up))

SpecSight == SightInit /\ [][SightCall]_vars

----------------------------------------------------------------------------
(* A World whose update() keeps being called with dt > 0: the main loop calls
   world.update once per iteration (main.py 35-53), update() is straight-line code that
   runs to its end, and fire() is called only when the player presses SPACE. *)

\* the calls World.update(dt, keys_held) with dt > 0
LiveFrames ==
    {[dt |-> 50, keys |-> {}],
     [dt |-> 50, keys |-> {"up"}]}

\* UpdateBegin for any number of calls: last.frames stops counting at MaxFrames
LiveUpdateBegin ==
    /\ pc = "idle"
    /\ \E f \in LiveFrames :
         /\ gun' = GunUpdate(gun, f.dt, f.keys)
         /\ frame' = [dt |-> f.dt, cur |-> 1, remaining |-> 0, hit |-> FALSE,
                      finished_shells |-> {}]
         /\ last' = [last EXCEPT !.op = "update", !.dt = f.dt, !.keys = f.keys,
                                 !.elevation = gun.elevation,
                                 !.since_shot = Min(@ + f.dt, RELOAD_TIME),
                                 !.frames = Min(@ + 1, MaxFrames), !.event = NoEvent]
    /\ pc' = "shells"
    /\ UNCHANGED <<tanks, shells, explosions, spotter_callouts, score, shots_fired>>

LiveNext == Fire \/ LiveUpdateBegin \/ NextShell \/ SubStep \/ EndShell \/ Finish

\* a step of the body of update()
UpdateStep == NextShell \/ SubStep \/ EndShell \/ Finish

\* WF_vars(UpdateStep), written out: a step of the body is possible exactly while an
\* update is running (pc # "idle"), and every such step changes pc or frame
UpdateRuns == []<>(pc = "idle") \/ []<><<UpdateStep>>_vars

SpecLive ==
    /\ Init
    /\ [][LiveNext]_vars
    /\ WF_vars(LiveUpdateBegin)
    /\ UpdateRuns

----------------------------------------------------------------------------
(* The gun alone, traversed with and without the fast modifier *)

\* the calls PlayerGun.update(dt, keys_held) that are made
RampFrames ==
    [dt : {2}, keys : {{"lshift"}, {"a", "lshift"}, {"d", "rshift"}}]
    \cup [dt : {5}, keys : {{}, {"a"}, {"a", "d", "lshift", "rshift"}}]

RampUpdateCall ==
    /\ pc = "idle"
    /\ \E f \in RampFrames :
         /\ gun' = GunUpdate(gun, f.dt, f.keys)
         /\ Abs(gun'.traverse) <= MaxTraverse
         /\ last' = [last EXCEPT !.op = "update", !.dt = f.dt, !.keys = f.keys,
                                 !.elevation = gun.elevation,
                                 !.since_shot = Min(@ + f.dt, RELOAD_TIME)]
    /\ UNCHANGED <<tanks, shells, explosions, spotter_callouts, score, shots_fired,
                   pc, frame>>

RampNext == GunFireCall \/ RampUpdateCall

SpecRamp == GunInit /\ [][RampNext]_vars

----------------------------------------------------------------------------
(* A shell stepped by itself: Shell.step(dt) called, as World.update's loop calls it,
   with SIM_DT or a remainder of it.  The shell is stepped for longer than World.update
   would step it: at the model's sub-step of 2 ticks a flight of SHELL_MAX_TIME takes 6
   trail samples, where the source's sub-step of 0.002 s takes 625. *)

\* ticks of flight for which the shell is stepped
MaxFlight == 150

\* ticks of flight during which steps shorter than SIM_DT are made
MaxShortTime == 6

\* before the shot: a gun, no shell
ShellInit == CallInit({[dt |-> 0]})

ShellFired ==
    /\ last.op = "init"
    /\ \E d \in Dispersions : shells' = <<FiredShell(gun, d[1], d[2])>>
    /\ last' = [last EXCEPT !.op = "fire", !.ret = TRUE]
    /\ UNCHANGED <<gun, tanks, explosions, spotter_callouts, score, shots_fired, pc, frame>>

ShellStepCall ==
    /\ last.op \in {"fire", "step"}
    /\ shells[1].time < MaxFlight
    /\ \E dt \in 1..SIM_DT :
         /\ dt = SIM_DT \/ shells[1].time < MaxShortTime
         /\ shells' = <<ShellStep(shells[1], dt)>>
         /\ frame' = [dt |-> dt]
    /\ last' = [last EXCEPT !.op = "step", !.steps = @ + 1]
    /\ UNCHANGED <<gun, tanks, explosions, spotter_callouts, score, shots_fired, pc>>

ShellNext == ShellFired \/ ShellStepCall

SpecShell == ShellInit /\ [][ShellNext]_vars

----------------------------------------------------------------------------
(* A World updated again and again with frame times shorter and longer than the
   lifetimes of its effects *)

\* the calls World.update(dt, keys_held) with dt > 0
AgingFrames ==
    {[dt |-> 9,  keys |-> {}],
     [dt |-> 50, keys |-> {}]}

AgingUpdateBegin ==
    /\ pc = "idle"
    /\ \E f \in AgingFrames :
         /\ gun' = GunUpdate(gun, f.dt, f.keys)
         /\ frame' = [dt |-> f.dt, cur |-> 1, remaining |-> 0, hit |-> FALSE,
                      finished_shells |-> {}]
         /\ last' = [last EXCEPT !.op = "update", !.dt = f.dt, !.keys = f.keys,
                                 !.elevation = gun.elevation,
                                 !.since_shot = Min(@ + f.dt, RELOAD_TIME),
                                 !.frames = Min(@ + 1, MaxFrames), !.event = NoEvent]
    /\ pc' = "shells"
    /\ UNCHANGED <<tanks, shells, explosions, spotter_callouts, score, shots_fired>>

AgingNext == Fire \/ AgingUpdateBegin \/ NextShell \/ SubStep \/ EndShell \/ Finish

SpecAging ==
    /\ Init
    /\ [][AgingNext]_vars
    /\ WF_vars(AgingUpdateBegin)
    /\ UpdateRuns

----------------------------------------------------------------------------
(* _generate_spotter_callout called for misses around a tank anywhere in the spawn area *)

\* ground impacts, as offsets from the tank: up to 125 m away on either axis, and just
\* inside and outside SPOTTER_MIN_CORRECTION
Offsets == {vec3(dx, 0, dz) : dx, dz \in {-2500, -300, -190, 0, 190, 300, 2500}}

DirectionCall ==
    /\ pc = "idle"
    /\ Len(spotter_callouts) < MaxCallouts
    /\ \E o \in Offsets :
         /\ spotter_callouts' =
                spotter_callouts \o generate_spotter_callout(tanks, VAdd(tanks[1].center, o), FALSE)
         /\ frame' = [impact_pos |-> VAdd(tanks[1].center, o), is_hit |-> FALSE]
    /\ last' = [last EXCEPT !.op = "callout"]
    /\ UNCHANGED <<gun, tanks, shells, explosions, score, shots_fired, pc>>

SpecDirection == Init /\ [][DirectionCall]_vars

----------------------------------------------------------------------------
(* audio.py: one _ChannelSlot, its methods called in any order.  Here frame holds the
   slot (self) and the dt of the last update; time is in milliseconds and volume in
   1/1000, so that AUDIO_RAMP_TIME (0.15 s) and the volumes keep their values. *)

AUDIO_MASTER_VOLUME == 800     \* 0.8
AUDIO_RAMP_TIME     == 150     \* 0.15 s
AUDIO_TRAVERSE_VOL  == 600     \* 0.6

\* _ChannelSlot.__init__; channel: what the mixer channel has been told
ChannelSlot(loop, base_volume) ==
    [loop           |-> loop,
     base_volume    |-> base_volume,
     target_volume  |-> 0,
     current_volume |-> 0,
     active         |-> FALSE,
     started        |-> FALSE,
     channel        |-> [playing |-> FALSE, volume |-> 1000]]

\* _ChannelSlot.set_active(active)
SlotSetActive(self, active) ==
    [self EXCEPT !.active = active,
                 !.target_volume = IF active THEN self.base_volume ELSE 0]

\* "ramp_speed * dt"; AUDIO_RAMP_TIME > 0 in settings.py
RampBy(self, dt) == Div(self.base_volume * dt, AUDIO_RAMP_TIME)

\* the ramp of update() without min() and max()
RampedFreely(self, by) ==
    IF self.current_volume < self.target_volume
    THEN self.current_volume + by
    ELSE IF self.current_volume > self.target_volume
    THEN self.current_volume - by
    ELSE self.current_volume

\* the volume after "Ramp toward target"
Ramped(self, by) ==
    IF self.current_volume < self.target_volume
    THEN Min(self.current_volume + by, self.target_volume)
    ELSE IF self.current_volume > self.target_volume
    THEN Max(self.current_volume - by, self.target_volume)
    ELSE self.current_volume

\* the start, the volume and the stop of the channel, current_volume being vol
Played(self, vol) ==
    LET starts  == vol > 0 /\ ~self.started
        started == self.started \/ starts
        stops   == vol <= 0 /\ started
    IN  [self EXCEPT
           !.current_volume = vol,
           !.started = started /\ ~stops,
           !.channel = [playing |-> (self.channel.playing \/ starts) /\ ~stops,
                        volume  |-> IF started
                                    THEN Div(vol * AUDIO_MASTER_VOLUME, 1000)
                                    ELSE self.channel.volume]]

\* _ChannelSlot.update(dt)
SlotUpdate(self, dt) ==
    IF ~self.loop THEN self ELSE Played(self, Ramped(self, RampBy(self, dt)))

\* the slots registered: main.py's traverse loop, and the one-shot and the loop of its
\* "future slots"
Slots ==
    {ChannelSlot(TRUE, AUDIO_TRAVERSE_VOL), ChannelSlot(FALSE, 1000), ChannelSlot(TRUE, 300)}

\* frame times in ms: none, one frame at 60 fps, main.py's clamp, and longer than the ramp
AudioFrames == {0, 16, 50, 200}

AudioInit == CallInit([self : Slots, dt : {0}])

AudioSetActive ==
    /\ \E active \in BOOLEAN :
         frame' = [frame EXCEPT !.self = SlotSetActive(frame.self, active)]
    /\ last' = [last EXCEPT !.op = "set_active"]
    /\ UNCHANGED <<gun, tanks, shells, explosions, spotter_callouts, score, shots_fired, pc>>

AudioUpdate ==
    /\ \E dt \in AudioFrames :
         frame' = [self |-> SlotUpdate(frame.self, dt), dt |-> dt]
    /\ last' = [last EXCEPT !.op = "slot.update"]
    /\ UNCHANGED <<gun, tanks, shells, explosions, spotter_callouts, score, shots_fired, pc>>

AudioNext == AudioSetActive \/ AudioUpdate

SpecAudio == AudioInit /\ [][AudioNext]_vars

----------------------------------------------------------------------------
(* A World fired as often as the gun allows, its shells lofted so that they fly for
   SHELL_MAX_TIME.  The sums of the source (shell.time += dt, reload_timer -= dt,
   pos + vel * dt) are sums of floats: a dt > 0 below half a unit in the last place of a
   sum, as 1e-18 s is against a flight time of seconds, leaves the sum as it was.  Such a
   call is the frame with dt |-> 0 and below |-> TRUE: nothing is added to any clock, and
   the one pass of the sub-step loop it makes moves no shell (prev = curr). *)

\* calls of World.fire() that produce a shell, per behaviour
MaxVolley == 4

\* the calls World.update(dt, keys_held); below: dt > 0, below the resolution of the sums
VolleyFrames ==
    {[dt |-> 0,  keys |-> {},     below |-> FALSE],
     [dt |-> 0,  keys |-> {},     below |-> TRUE],
     [dt |-> 30, keys |-> {"up"}, below |-> FALSE],
     [dt |-> 50, keys |-> {"up"}, below |-> FALSE]}

\* Fire, up to MaxVolley shots
VolleyFire ==
    /\ pc = "idle"
    /\ shots_fired < MaxVolley
    /\ \E d \in Dispersions :
         LET r == GunFire(gun, d[1], d[2])
         IN  /\ gun' = r.gun
             /\ shells' = IF r.fired THEN Append(shells, r.shell) ELSE shells
             /\ shots_fired' = IF r.fired THEN shots_fired + 1 ELSE shots_fired
             /\ last' = [last EXCEPT !.op = "fire", !.ret = r.fired,
                                     !.since_shot = IF r.fired THEN 0 ELSE @,
                                     !.event = NoEvent]
    /\ UNCHANGED <<tanks, explosions, spotter_callouts, score, pc, frame>>

\* UpdateBegin for any number of calls
VolleyUpdateBegin ==
    /\ pc = "idle"
    /\ \E f \in VolleyFrames :
         /\ gun' = GunUpdate(gun, f.dt, f.keys)
         /\ frame' = [dt |-> f.dt, cur |-> 1, remaining |-> 0, hit |-> FALSE,
                      finished_shells |-> {}]
         /\ last' = [last EXCEPT !.op = "update", !.dt = f.dt, !.keys = f.keys,
                                 !.below = f.below,
                                 !.elevation = gun.elevation,
                                 !.since_shot = Min(@ + f.dt, RELOAD_TIME),
                                 !.frames = Min(@ + 1, MaxFrames), !.event = NoEvent]
    /\ pc' = "shells"
    /\ UNCHANGED <<tanks, shells, explosions, spotter_callouts, score, shots_fired>>

VolleyNext == VolleyFire \/ VolleyUpdateBegin \/ NextShell \/ SubStep \/ EndShell \/ Finish

SpecVolley == Init /\ [][VolleyNext]_vars

----------------------------------------------------------------------------
(* The sight picture of a ground impact: the gun laid, an impact near the tank reported
   by the spotter and projected, with the tank's centre, as renderer.py projects what it
   draws: project_to_sight(pos, gun.eye, *gun.get_view()). *)

\* project_to_sight for positions in length units (0.05 m), where 0.5 m is 10 units and
\* Dot(delta, forward) is in 1/10000 of a unit
ProjectedAfar(delta, forward, right, up) ==
    IF Dot(delta, forward) < 100000
    THEN NoProjection
    ELSE Projected(Dot(delta, right), Dot(delta, up), Dot(delta, forward))

\* the sight offsets of a point of the world seen through basis from the gun's eye
SightOf(point_3d, basis) ==
    ProjectedAfar(VSub(point_3d, Eye), basis.forward, basis.right, basis.up)

\* the traverse angles that lay the gun on the three spawn positions
\* (atan2(x, z) of each, in 0.01 deg), and the elevations it is laid at
Lays ==
    [traverse : {-2180, 0, 759}, elevation : {0, INITIAL_ELEVATION_DEG}]

\* the player has laid the gun
GunLaid ==
    /\ last.op = "init"
    /\ \E l \in Lays : gun' = [gun EXCEPT !.traverse = l.traverse, !.elevation = l.elevation]
    /\ last' = [last EXCEPT !.op = "laid"]
    /\ UNCHANGED <<tanks, shells, explosions, spotter_callouts, score, shots_fired, pc, frame>>

\* the point of the ground at offset o from tank
GroundAt(tank, o) == vec3(tank.center[1] + o[1], 0, tank.center[3] + o[3])

\* a shell lands on the ground at offset o from the tank: the spotter's callout, and
\* where the sight shows the impact and the tank's centre
ImpactSeen ==
    /\ last.op = "laid"
    /\ \E o \in Offsets :
         /\ spotter_callouts' =
                generate_spotter_callout(tanks, GroundAt(tanks[1], o), FALSE)
         /\ frame' = [impact_pos |-> GroundAt(tanks[1], o),
                      is_hit     |-> FALSE,
                      impact     |-> SightOf(GroundAt(tanks[1], o),
                                             get_view_basis(gun.elevation, gun.traverse)),
                      target     |-> SightOf(tanks[1].center,
                                             get_view_basis(gun.elevation, gun.traverse))]
    /\ last' = [last EXCEPT !.op = "seen"]
    /\ UNCHANGED <<gun, tanks, shells, explosions, score, shots_fired, pc>>

AimNext == GunLaid \/ ImpactSeen

SpecAim == Init /\ [][AimNext]_vars

----------------------------------------------------------------------------
(* Claims *)

\* C1: in every state reached by fire() and update(dt) calls on a gun, ready is true
\* exactly when reload_timer <= 0, and reload_timer lies within [0, RELOAD_TIME].
C1_ReadyIffTimerZero ==
    /\ gun.ready = (gun.reload_timer <= 0)
    /\ 0 <= gun.reload_timer
    /\ gun.reload_timer <= RELOAD_TIME

\* a gun part-way through a reload
C1_Witness ==
    /\ last.op = "update"
    /\ ~gun.ready
    /\ 0 < gun.reload_timer
    /\ gun.reload_timer < RELOAD_TIME

\* C2: after a shot, every fire() made while the dt passed to update() since the shot is
\* below RELOAD_TIME returns no shell and adds none to the world; and the gun is ready
\* again exactly from the update at which that total reaches RELOAD_TIME.
C2_NoShotWhileReloading ==
    /\ [](shots_fired > 0 => (gun.ready <=> last.since_shot >= RELOAD_TIME))
    /\ [][(Fire /\ shots_fired > 0 /\ last.since_shot < RELOAD_TIME)
             => (~last'.ret /\ shells' = shells /\ shots_fired' = shots_fired)]_vars

\* a fire() refused part-way through a reload
C2_Witness ==
    /\ last.op = "fire"
    /\ ~last.ret
    /\ shots_fired > 0
    /\ 0 < last.since_shot
    /\ last.since_shot < RELOAD_TIME

\* C3: World.fire() with the gun ready returns True, appends exactly one live shell to
\* shells and adds exactly 1 to shots_fired; with the gun not ready it returns False and
\* leaves shells, shots_fired, score, ready and reload_timer as they were.
C3_FireContract ==
    [][Fire =>
         IF gun.ready
         THEN /\ last'.ret
              /\ Len(shells') = Len(shells) + 1
              /\ SubSeq(shells', 1, Len(shells)) = shells
              /\ shells'[Len(shells')].alive
              /\ shots_fired' = shots_fired + 1
         ELSE /\ ~last'.ret
              /\ shells' = shells
              /\ shots_fired' = shots_fired
              /\ score' = score
              /\ gun'.ready = gun.ready
              /\ gun'.reload_timer = gun.reload_timer]_vars

\* a second shell fired while the first is still in the world
C3_Witness ==
    /\ last.op = "fire"
    /\ last.ret
    /\ Len(shells) = 2
    /\ shells[2].alive
    /\ shots_fired = 2

\* C4: the sub-step in which the segment of a live shell meets the box of a live tank
\* marks that tank not alive and destroyed, adds exactly 1 to score, appends exactly one
\* explosion, with is_hit true, and exactly one callout, whose lines are ["TARGET HIT!"],
\* terminates the shell, and is the last sub-step of that shell in the update.
C4_TankHit ==
    [][(SubStep /\ StepTank # 0) =>
         /\ ~tanks'[StepTank].alive
         /\ tanks'[StepTank].destroyed
         /\ \A i \in 1..Len(tanks) : i # StepTank => tanks'[i] = tanks[i]
         /\ score' = score + 1
         /\ Len(explosions') = Len(explosions) + 1
         /\ SubSeq(explosions', 1, Len(explosions)) = explosions
         /\ explosions'[Len(explosions')].is_hit
         /\ Len(spotter_callouts') = Len(spotter_callouts) + 1
         /\ SubSeq(spotter_callouts', 1, Len(spotter_callouts)) = spotter_callouts
         /\ spotter_callouts'[Len(spotter_callouts')].lines
                = <<[text |-> "TARGET HIT!", m |-> 0]>>
         /\ ~shells'[frame.cur].alive
         /\ ~Stepping']_vars

\* a tank hit in a sub-step whose segment reaches the ground as well
C4_Witness ==
    /\ last.op = "step"
    /\ last.event.tank_hit
    /\ shells[frame.cur].pos[2] <= 0
    /\ score = 1
    /\ Len(explosions) = 1

C6_DistanceWithinRange ==
    \A i \in 1..Len(tanks) :
        /\ SPAWN_RANGE_MIN <= Norm(VSub(tanks[i].center, Eye))
        /\ Norm(VSub(tanks[i].center, Eye)) <= SPAWN_RANGE_MAX
        /\ -SPAWN_LATERAL_MAX <= tanks[i].center[1]
        /\ tanks[i].center[1] <= SPAWN_LATERAL_MAX

\* C6: every tank stands at a forward (Z) offset from the gun eye within
\* [SPAWN_RANGE_MIN, SPAWN_RANGE_MAX] and at a lateral (X) offset within
\* [-SPAWN_LATERAL_MAX, SPAWN_LATERAL_MAX], at half its height above the ground.
C6_ForwardWithinRange ==
    \A i \in 1..Len(tanks) :
        /\ SPAWN_RANGE_MIN <= tanks[i].center[3] - Eye[3]
        /\ tanks[i].center[3] - Eye[3] <= SPAWN_RANGE_MAX
        /\ -SPAWN_LATERAL_MAX <= tanks[i].center[1] - Eye[1]
        /\ tanks[i].center[1] - Eye[1] <= SPAWN_LATERAL_MAX
        /\ tanks[i].center[2] = Div(TANK_HEIGHT, 2)

\* a tank respawned at the far corner of the spawn area
C6_Witness ==
    /\ pc = "idle"
    /\ score >= 1
    /\ tanks[1].center[3] = SPAWN_RANGE_MAX
    /\ tanks[1].center[1] = SPAWN_LATERAL_MAX
    /\ Norm(VSub(tanks[1].center, Eye)) > SPAWN_RANGE_MAX

\* C7: the end of update() leaves in shells exactly the shells that were alive, in their
\* order; whenever no update is running, every shell in shells is alive.
C7_NoTerminatedShell ==
    /\ [](pc = "idle" => \A i \in 1..Len(shells) : shells[i].alive)
    /\ [][Finish => shells' = SelectSeq(shells, LAMBDA s : s.alive)]_vars

\* the return of an update that removed one shell and kept the other
C7_Witness ==
    /\ pc = "idle"
    /\ last.op = "updated"
    /\ last.removed = 1
    /\ Len(shells) = 1
    /\ shots_fired = 2

\* C8 as stated: every sub-step that terminates a shell (a tank hit, a ground impact, the
\* maximum flight time) while an alive tank exists appends one callout.
C8_CalloutOnEveryResolution ==
    [][(SubStep /\ ~shells'[frame.cur].alive /\ (\E i \in 1..Len(tanks) : tanks[i].alive))
          => Len(spotter_callouts') = Len(spotter_callouts) + 1]_vars

\* C8: a sub-step that hits a tank appends one callout; one that hits the ground while
\* an alive tank exists appends one callout, which is not a hit callout; every other
\* sub-step, the one that ends a shell at its maximum flight time too, appends none.
C8_CalloutOnImpact ==
    [][SubStep =>
         IF StepTank # 0
         THEN spotter_callouts' = Append(spotter_callouts, HitCallout)
         ELSE IF StepGround.hit /\ (\E i \in 1..Len(tanks) : tanks[i].alive)
         THEN /\ Len(spotter_callouts') = Len(spotter_callouts) + 1
              /\ SubSeq(spotter_callouts', 1, Len(spotter_callouts)) = spotter_callouts
              /\ ~spotter_callouts'[Len(spotter_callouts')].is_hit
              /\ Len(spotter_callouts'[Len(spotter_callouts')].lines) = 2
         ELSE spotter_callouts' = spotter_callouts]_vars

\* a ground impact reported while a tank is alive
C8_Witness ==
    /\ last.op = "step"
    /\ last.event.ground_hit
    /\ last.event.target
    /\ spotter_callouts # <<>>
    /\ ~spotter_callouts[Len(spotter_callouts)].is_hit
    /\ spotter_callouts[Len(spotter_callouts)].timer = SPOTTER_DISPLAY_TIME

\* C9: a sub-step in which the shell hits no tank and crosses the ground while no tank
\* is alive appends one explosion, at the crossing point and with is_hit false, terminates
\* the shell, and leaves spotter_callouts, tanks and score as they were.
C9_GroundHitNoTarget ==
    [][(SubStep /\ StepTank = 0 /\ StepGround.hit
                /\ (\A i \in 1..Len(tanks) : ~tanks[i].alive)) =>
         /\ explosions' = Append(explosions, Explosion(StepGround.pt, FALSE))
         /\ ~shells'[frame.cur].alive
         /\ spotter_callouts' = spotter_callouts
         /\ tanks' = tanks
         /\ score' = score]_vars

\* a shell on the ground in the update in which an earlier shell destroyed the sole tank
C9_Witness ==
    /\ last.op = "step"
    /\ last.event.ground_hit
    /\ ~last.event.target
    /\ frame.cur = 2
    /\ score = 1
    /\ Len(tanks) = 1
    /\ tanks[1].destroyed
    /\ explosions # <<>>
    /\ ~explosions[Len(explosions)].is_hit

\* C10: the elevation always lies within [MIN_ELEVATION, MAX_ELEVATION]; an update that
\* asks for an elevation outside the range leaves it at the bound it would cross, and one
\* that asks for an elevation inside the range leaves it there.
C10_ElevationClamped ==
    /\ MIN_ELEVATION_DEG <= gun.elevation
    /\ gun.elevation <= MAX_ELEVATION_DEG
    /\ last.op = "update" =>
         LET asked == last.elevation
                      + (IF "up" \in last.keys THEN ELEVATION_SPEED_DEG * last.dt ELSE 0)
                      - (IF "down" \in last.keys THEN ELEVATION_SPEED_DEG * last.dt ELSE 0)
         IN  gun.elevation = (IF asked > MAX_ELEVATION_DEG THEN MAX_ELEVATION_DEG
                              ELSE IF asked < MIN_ELEVATION_DEG THEN MIN_ELEVATION_DEG
                              ELSE asked)

\* an update that asked for less than the minimum
C10_Witness ==
    /\ last.op = "update"
    /\ "down" \in last.keys
    /\ "up" \notin last.keys
    /\ last.elevation - ELEVATION_SPEED_DEG * last.dt < MIN_ELEVATION_DEG
    /\ gun.elevation = MIN_ELEVATION_DEG

\* C11 as stated: reading world.gun.is_traversing after an update never fails, and the
\* value read is true exactly when a traverse key (a or d) was held in that update.
C11_TraversingSignal ==
    /\ pc # "AttributeError"
    /\ last.op = "audio" => (last.ret <=> ("a" \in last.keys \/ "d" \in last.keys))

\* C12: in the callout of a miss each axis is reported by itself: an error below
\* SPOTTER_MIN_CORRECTION gives the ON line; any other error gives a distance that is
\* the larger of SPOTTER_ROUND_TO and a multiple of SPOTTER_ROUND_TO nearest to |error|
\* (lengths in units of 0.05 m: 20 to the metre).
C12_CorrectionPerAxis ==
    (last.op = "callout" /\ ~frame.is_hit) =>
        LET lines == spotter_callouts[Len(spotter_callouts)].lines
            Reported(line, err, on) ==
                IF Abs(err) < SPOTTER_MIN_CORRECTION * 20
                THEN line.text = on
                ELSE /\ line.text # on
                     /\ \E n \in 0..10 :
                          /\ 2 * Abs(n * SPOTTER_ROUND_TO * 20 - Abs(err))
                                 <= SPOTTER_ROUND_TO * 20
                          /\ line.m = Max(SPOTTER_ROUND_TO, n * SPOTTER_ROUND_TO)
        IN  /\ Reported(lines[1], frame.impact_pos[3] - tanks[1].center[3], "RANGE: ON")
            /\ Reported(lines[2], frame.impact_pos[1] - tanks[1].center[1], "LINE: ON")

\* an impact 37 m long and 5 m right: LONG 50 and LINE: ON
C12_Witness ==
    /\ last.op = "callout"
    /\ ~frame.is_hit
    /\ frame.impact_pos[3] - tanks[1].center[3] = 37 * 20
    /\ frame.impact_pos[1] - tanks[1].center[1] = 5 * 20
    /\ spotter_callouts[1].lines = <<[text |-> "LONG", m |-> 50],
                                     [text |-> "LINE: ON", m |-> 0]>>

\* C13: every callout in spotter_callouts is either a hit callout with exactly one line,
\* "TARGET HIT!", or a miss callout with exactly two lines, the range line first and the
\* lateral line second.
C13_CalloutLines ==
    \A i \in 1..Len(spotter_callouts) :
        IF spotter_callouts[i].is_hit
        THEN /\ Len(spotter_callouts[i].lines) = 1
             /\ spotter_callouts[i].lines[1].text = "TARGET HIT!"
        ELSE /\ Len(spotter_callouts[i].lines) = 2
             /\ spotter_callouts[i].lines[1].text \in {"RANGE: ON", "LONG", "SHORT"}
             /\ spotter_callouts[i].lines[2].text \in {"LINE: ON", "RIGHT", "LEFT"}

\* a miss callout still shown after the update that made it
C13_Witness ==
    /\ pc = "idle"
    /\ last.op = "updated"
    /\ Len(spotter_callouts) = 1
    /\ ~spotter_callouts[1].is_hit
    /\ spotter_callouts[1].timer = SPOTTER_DISPLAY_TIME - last.dt
    /\ spotter_callouts[1].lines[1].text = "SHORT"
    /\ spotter_callouts[1].lines[2].text = "LINE: ON"

\* C14: segment_aabb_intersect(p0, p1, aabb_min, aabb_max) returns a point exactly when
\* some p0 + t (p1 - p0) with t in [0, 1] lies in the closed box, and the point returned
\* is the one of the smallest such t.  The segment meets the box exactly when it does so
\* at t = 0 or where it crosses the plane of a face, so these t = n / den are tried.
C14_SegmentBox ==
    last.op = "segment_aabb_intersect" =>
        LET p0 == frame.p0
            d  == VSub(frame.p1, frame.p0)
            Crossings ==
                {<<0, 1>>} \cup
                UNION {{<<(IF d[i] > 0 THEN f - p0[i] ELSE p0[i] - f), Abs(d[i])>> :
                           f \in {frame.aabb_min[i], frame.aabb_max[i]}} :
                       i \in {j \in 1..3 : d[j] # 0}}
            InBox(t) ==
                /\ 0 <= t[1]
                /\ t[1] <= t[2]
                /\ \A j \in 1..3 :
                     /\ frame.aabb_min[j] * t[2] <= p0[j] * t[2] + d[j] * t[1]
                     /\ p0[j] * t[2] + d[j] * t[1] <= frame.aabb_max[j] * t[2]
            Meets == {t \in Crossings : InBox(t)}
        IN  /\ last.ret.hit <=> Meets # {}
            /\ last.ret.hit =>
                 \E t \in Meets :
                     /\ \A u \in Meets : t[1] * u[2] <= u[1] * t[2]
                     /\ last.ret.pt = vec3(p0[1] + Div(d[1] * t[1], t[2]),
                                           p0[2] + Div(d[2] * t[1], t[2]),
                                           p0[3] + Div(d[3] * t[1], t[2]))

\* (0, 5, 0) -> (0, -5, 0) meets the box (-1,-1,-1)..(1,1,1) at (0, 1, 0)
C14_Witness ==
    /\ last.op = "segment_aabb_intersect"
    /\ frame.p0 = vec3(0, 5, 0)
    /\ frame.p1 = vec3(0, -5, 0)
    /\ last.ret = [hit |-> TRUE, pt |-> vec3(0, 1, 0)]

\* C15: check_ground_hit(prev, curr) returns a point exactly when prev.y > 0 and
\* curr.y <= 0; the point has y = 0 and lies at the fraction prev.y / (prev.y - curr.y)
\* of the way from prev to curr (to the resolution of one length unit, and exactly
\* where the fraction of the step is a whole number of units).
C15_GroundCrossing ==
    last.op = "check_ground_hit" =>
        LET prev == frame.prev_pos
            curr == frame.curr_pos
            pt   == last.ret.pt
            num  == prev[2]
            den  == prev[2] - curr[2]
        IN  /\ last.ret.hit <=> (prev[2] > 0 /\ curr[2] <= 0)
            /\ last.ret.hit =>
                /\ pt[2] = 0
                /\ \A i \in {1, 3} :
                      /\ Abs((pt[i] - prev[i]) * den - (curr[i] - prev[i]) * num) < den
                      /\ ((curr[i] - prev[i]) * num) % den = 0
                            => (pt[i] - prev[i]) * den = (curr[i] - prev[i]) * num

\* a step from (0, 2, 0) to (3, -1, 6) crosses the ground two thirds of the way, at (2, 0, 4)
C15_Witness ==
    /\ last.op = "check_ground_hit"
    /\ frame.prev_pos = vec3(0, 2, 0)
    /\ frame.curr_pos = vec3(3, -1, 6)
    /\ last.ret = [hit |-> TRUE, pt |-> vec3(2, 0, 4)]

C17_RightHandedBasis ==
    last.op = "get_view_basis" =>
        LET forward == last.ret.forward
            right   == last.ret.right
            up      == last.ret.up
        IN  /\ \A v \in {forward, right, up} : Abs(Dot(v, v) - 100000000) <= 60000
            /\ Abs(Dot(forward, right)) <= 60000
            /\ Abs(Dot(forward, up)) <= 60000
            /\ Abs(Dot(right, up)) <= 60000
            /\ Dot(Cross(forward, right), up) > 0

\* C18: a shell goes from flying to terminated and never back: in every step of
\* World.update a shell whose alive flag is false is either left exactly as it is (alive
\* flag, position, velocity, time and trail) or removed from world.shells by the end of
\* the update, which leaves no terminated shell behind; and step() is only called on a
\* shell that is alive.
C18_NoReentry ==
    [][/\ \A i \in 1..Len(shells) :
             ~shells[i].alive =>
                 \/ i <= Len(shells') /\ shells'[i] = shells[i]
                 \/ pc = "finish" /\ \A j \in 1..Len(shells') : shells'[j].alive
       /\ last'.op = "step" => shells[frame.cur].alive]_vars

\* the second shell of world.shells is stepped while the first, terminated earlier in
\* the same update, is still in the list
C18_Witness ==
    /\ pc = "steps"
    /\ last.op = "step"
    /\ frame.cur = 2
    /\ Len(shells) = 2
    /\ ~shells[1].alive

\* C19: a shell is marked terminated in the sub-step in which its flight time first
\* exceeds SHELL_MAX_TIME: a live shell never has a time above it, and a sub-step that
\* takes the time above it leaves the shell terminated; so every shell left in
\* world.shells after update() has time <= SHELL_MAX_TIME; and, update() being called
\* again and again with dt > 0, the shells fired so far are all removed from
\* world.shells unless another is fired first.
C19_MaxFlightTime ==
    /\ [](\A i \in 1..Len(shells) : shells[i].alive => shells[i].time <= SHELL_MAX_TIME)
    /\ [][SubStep => (shells'[frame.cur].time > SHELL_MAX_TIME
                          => ~shells'[frame.cur].alive /\ shells[frame.cur].alive)]_vars
    /\ [](pc = "idle" => \A i \in 1..Len(shells) : shells[i].time <= SHELL_MAX_TIME)
    /\ \A n \in 1..MaxShots :
           (shots_fired = n) ~> (shots_fired > n \/ shells = <<>>)

\* a shell terminated by the sub-step that took its flight time above SHELL_MAX_TIME,
\* high above the ground
C19_Witness ==
    /\ last.op = "step"
    /\ last.event.timed_out
    /\ ~shells[frame.cur].alive
    /\ shells[frame.cur].time > SHELL_MAX_TIME
    /\ shells[frame.cur].pos[2] > 0

\* C20: for every live shell and every frame time dt, the sub-step loop of World.update
\* makes at most floor(dt / SIM_DT) + 1 calls of Shell.step; the time passed to each call
\* is what the call takes off the remaining frame time, it is SIM_DT, or it is the
\* remainder (0 < size <= SIM_DT) and then it is the last; and a shell that leaves the
\* loop alive has had its flight time increased by exactly dt.
C20_SubStepLoop ==
    /\ [](pc = "steps" => last.steps <= (frame.dt \div SIM_DT) + 1)
    /\ [][SubStep =>
            LET size == shells'[frame.cur].time - shells[frame.cur].time
            IN  /\ size = frame.remaining - frame'.remaining
                /\ 0 < size
                /\ size <= SIM_DT
                /\ size = SIM_DT \/ (size = frame.remaining /\ frame'.remaining = 0)]_vars
    /\ [][(EndShell /\ shells[frame.cur].alive)
              => shells[frame.cur].time = last.start + frame.dt]_vars

\* a frame of 0.3 s consumed by a live shell in two steps, of 0.2 s and 0.1 s
C20_Witness ==
    /\ pc = "steps"
    /\ frame.dt = 3
    /\ frame.remaining = 0
    /\ last.steps = 2
    /\ shells[frame.cur].alive
    /\ shells[frame.cur].time = last.start + 3

\* C21: the traverse-ramp accumulator stays within [0, TRAVERSE_RAMP_TIME]; it grows
\* only in an update in which a shift key and a traverse key (A or D) are both held, by
\* dt or up to TRAVERSE_RAMP_TIME; it is 0 after every update in which the shift keys
\* or the traverse keys are not held; and fire() leaves it as it is.
C21_TraverseRamp ==
    /\ [](gun.traverse_ramp >= 0 /\ gun.traverse_ramp <= TRAVERSE_RAMP_TIME)
    /\ [][/\ last'.op = "update" =>
               LET held == /\ ("lshift" \in last'.keys \/ "rshift" \in last'.keys)
                           /\ ("a" \in last'.keys \/ "d" \in last'.keys)
               IN  /\ ~held => gun'.traverse_ramp = 0
                   /\ gun'.traverse_ramp > gun.traverse_ramp =>
                         /\ held
                         /\ \/ gun'.traverse_ramp = gun.traverse_ramp + last'.dt
                            \/ /\ gun'.traverse_ramp = TRAVERSE_RAMP_TIME
                               /\ gun.traverse_ramp + last'.dt > TRAVERSE_RAMP_TIME
                   /\ held => gun'.traverse_ramp >= gun.traverse_ramp
          /\ last'.op = "fire" => gun'.traverse_ramp = gun.traverse_ramp]_vars

\* the ramp after two updates of 0.2 s with shift and A held
C21_Witness ==
    /\ last.op = "update"
    /\ last.dt = 2
    /\ last.keys = {"a", "lshift"}
    /\ gun.traverse_ramp = 4

\* C22: a shell's trail always holds between 1 and TRACER_TRAIL_LENGTH positions in
\* chronological order: a step that takes no sample (the trail timer is running after
\* it) leaves the trail as it is, and a step that takes one (the timer is back at 0)
\* appends the shell's new position at the end, dropping the first (oldest) sample when
\* the trail is full.
C22_TrailBounded ==
    /\ [](\A i \in 1..Len(shells) :
             Len(shells[i].trail) >= 1 /\ Len(shells[i].trail) <= TRACER_TRAIL_LENGTH)
    /\ [][last'.op = "step" =>
            LET old == shells[1].trail
                new == shells'[1].trail
            IN  IF shells'[1].trail_timer > 0
                THEN new = old
                ELSE IF Len(old) < TRACER_TRAIL_LENGTH
                THEN new = Append(old, shells'[1].pos)
                ELSE new = Append(Tail(old), shells'[1].pos)]_vars

\* a full trail whose oldest sample has just been dropped for the newest
C22_Witness ==
    /\ last.op = "step"
    /\ Len(shells[1].trail) = TRACER_TRAIL_LENGTH
    /\ shells[1].trail_timer = 0
    /\ shells[1].time > (TRACER_TRAIL_LENGTH + 1) * TRACER_SAMPLE_INTERVAL
    /\ shells[1].trail[TRACER_TRAIL_LENGTH] = shells[1].pos

C24_EffectsAge ==
    /\ [][Finish =>
            LET aged(e) == [e EXCEPT !.timer = @ - frame.dt]
                kept(effects) ==
                    SelectSeq([i \in 1..Len(effects) |-> aged(effects[i])],
                              LAMBDA e : e.timer > 0)
            IN  /\ explosions' = kept(explosions)
                /\ spotter_callouts' = kept(spotter_callouts)]_vars
    /\ [](pc = "idle" =>
            /\ \A i \in 1..Len(explosions) :
                  explosions[i].timer > 0 /\ explosions[i].timer <= explosions[i].max_time
            /\ \A i \in 1..Len(spotter_callouts) :
                  /\ spotter_callouts[i].timer > 0
                  /\ spotter_callouts[i].timer <= spotter_callouts[i].max_time)
    /\ \A n \in 1..MaxShots :
           (shots_fired = n)
               ~> (shots_fired > n \/ (pc = "idle" /\ explosions = <<>> /\ spotter_callouts = <<>>))

\* a callout that has been through two updates, after the explosion of the same impact
\* has run out
C24_Witness ==
    /\ pc = "idle"
    /\ last.op = "updated"
    /\ explosions = <<>>
    /\ Len(spotter_callouts) = 1
    /\ spotter_callouts[1].timer = SPOTTER_DISPLAY_TIME - 3 * 9

\* C25: in a miss callout the range line says LONG when the ground-plane vector from the
\* target to the impact points along the eye-to-target direction and SHORT when against
\* it, and the lateral line says RIGHT when it points along
\* right = (forward.z, 0, -forward.x) and LEFT when against it; an error of at least
\* SPOTTER_MIN_CORRECTION on an axis always gets a direction (the signs taken exactly,
\* by cross-multiplication; the one-unit margin covers the rounding of the model).
C25_DirectionText ==
    last.op = "callout" =>
        LET lines == spotter_callouts[Len(spotter_callouts)].lines
            tx    == tanks[1].center[1] - Eye[1]
            tz    == tanks[1].center[3] - Eye[3]
            dx    == frame.impact_pos[1] - tanks[1].center[1]
            dz    == frame.impact_pos[3] - tanks[1].center[3]
            along == dx * tx + dz * tz
            side  == dx * tz - dz * tx
            least == (SPOTTER_MIN_CORRECTION * 20 + 1) * (Norm(vec3(tx, 0, tz)) + 1)
        IN  /\ Len(lines) = 2
            /\ lines[1].text \in {"RANGE: ON", "LONG", "SHORT"}
            /\ lines[2].text \in {"LINE: ON", "RIGHT", "LEFT"}
            /\ lines[1].text = "LONG"  => along > 0
            /\ lines[1].text = "SHORT" => along < 0
            /\ lines[2].text = "RIGHT" => side > 0
            /\ lines[2].text = "LEFT"  => side < 0
            /\ Abs(along) >= least => lines[1].text # "RANGE: ON"
            /\ Abs(side) >= least => lines[2].text # "LINE: ON"

\* an impact 15 m nearer than a tank 200 m to the right of the line of sight, and 15 m
\* further from that line
C25_Witness ==
    /\ last.op = "callout"
    /\ tanks[1].center[1] = SPAWN_LATERAL_MAX
    /\ frame.impact_pos = VAdd(tanks[1].center, vec3(300, 0, -300))
    /\ spotter_callouts[1].lines[1].text = "SHORT"
    /\ spotter_callouts[1].lines[2].text = "RIGHT"

\* C26: for a looping slot, after every update(dt) with dt >= 0, whatever set_active
\* calls came before, current_volume is within [0, base_volume], lies between its
\* former value and target_volume (it moves towards the target, when dt > 0 and it is
\* not there yet, and never beyond it), and the channel is playing (_started) exactly
\* when current_volume > 0; update() on a slot that does not loop changes nothing.
C26_VolumeRamp ==
    [][AudioUpdate =>
         LET old == frame.self
             new == frame'.self
         IN  IF ~old.loop
             THEN new = old
             ELSE /\ new.current_volume >= 0
                  /\ new.current_volume <= new.base_volume
                  /\ new.target_volume = old.target_volume
                  /\ old.current_volume <= old.target_volume =>
                        /\ old.current_volume <= new.current_volume
                        /\ new.current_volume <= old.target_volume
                  /\ old.current_volume >= old.target_volume =>
                        /\ old.current_volume >= new.current_volume
                        /\ new.current_volume >= old.target_volume
                  /\ (frame'.dt > 0 /\ old.current_volume # old.target_volume)
                        => new.current_volume # old.current_volume
                  /\ new.started <=> new.current_volume > 0
                  /\ new.channel.playing <=> new.started]_vars

\* the traverse loop fading out: switched off, still playing, part of the way down
C26_Witness ==
    /\ last.op = "slot.update"
    /\ frame.self.loop
    /\ frame.self.base_volume = AUDIO_TRAVERSE_VOL
    /\ ~frame.self.active
    /\ frame.self.started
    /\ frame.self.current_volume > 0
    /\ frame.self.current_volume < AUDIO_TRAVERSE_VOL

\* C27: a fired shell causes at most one score increment, one explosion and one callout
\* in its whole life: any step that adds to the score, the explosions or the callouts
\* adds one at most, is a sub-step of a shell that was alive and is not alive after
\* it, a shell that is not alive stays so until update() removes it, and update()
\* leaves no such shell in the list; a hit kills a tank that was alive and leaves the
\* other tanks alone; hence the score and the shells in flight together never exceed
\* shots_fired, and score <= shots_fired in every state.
C27_OneEffectPerShell ==
    /\ [](/\ score <= shots_fired
          /\ score + Cardinality({i \in 1..Len(shells) : shells[i].alive}) <= shots_fired)
    /\ [][/\ score' <= score + 1
          /\ Len(explosions') <= Len(explosions) + 1
          /\ Len(spotter_callouts') <= Len(spotter_callouts) + 1
          /\ (\/ score' > score
              \/ Len(explosions') > Len(explosions)
              \/ Len(spotter_callouts') > Len(spotter_callouts))
                => /\ pc = "steps"
                   /\ frame.cur \in 1..Len(shells)
                   /\ frame'.cur = frame.cur
                   /\ shells[frame.cur].alive
                   /\ Len(shells') = Len(shells)
                   /\ ~shells'[frame.cur].alive
                   /\ \A i \in 1..Len(shells) \ {frame.cur} : shells'[i] = shells[i]
          /\ score' > score
                => \E i \in 1..Len(tanks) :
                      /\ tanks[i].alive
                      /\ Len(tanks') = Len(tanks)
                      /\ ~tanks'[i].alive
                      /\ \A j \in 1..Len(tanks) \ {i} : tanks'[j] = tanks[j]
          /\ \A i \in 1..Len(shells) :
                ~shells[i].alive
                   => IF pc = "finish"
                      THEN \A j \in 1..Len(shells') : shells'[j].alive
                      ELSE i <= Len(shells') /\ shells'[i] = shells[i]]_vars

\* every shot fired so far has scored, the last one just now: one explosion and one
\* callout more, the shell no longer alive
C27_Witness ==
    /\ last.op = "step"
    /\ last.event.tank_hit
    /\ score = shots_fired
    /\ score = 2
    /\ ~shells[frame.cur].alive
    /\ explosions # <<>>
    /\ explosions[Len(explosions)].is_hit

C29_NoFlightUnderground ==
    /\ [](\A i \in 1..Len(shells) : shells[i].alive => shells[i].pos[2] > 0)
    /\ [][\A i \in 1..Len(shells) :
             (/\ pc = "steps"
              /\ i = frame.cur
              /\ shells[i].alive
              /\ shells'[i] # shells[i]
              /\ shells'[i].pos[2] <= 0)
                => /\ ~shells'[i].alive
                   /\ last'.event.tank_hit \/ last'.event.ground_hit]_vars

\* a shell that flew on from above the ground has come down to it, and is ended by the
\* ground hit
C29_Witness ==
    /\ pc = "steps"
    /\ last.op = "step"
    /\ last.steps > 1
    /\ last.event.ground_hit
    /\ shells[frame.cur].pos[2] <= 0
    /\ ~shells[frame.cur].alive

\* C30: with the gun aimed at the target (the tank's centre within 10 pixels of the
\* vertical line of the sight), a ground impact that the spotter reports as RIGHT is
\* projected to a larger sight x than the tank's centre, and one reported as LEFT to a
\* smaller sight x.
C30_SpotterAgreesWithSight ==
    (/\ last.op = "seen"
     /\ frame.target.visible
     /\ Abs(frame.target.sx) <= 10
     /\ frame.impact.visible
     /\ spotter_callouts # <<>>)
        => LET lateral == spotter_callouts[1].lines[2].text
           IN  /\ lateral = "RIGHT" => frame.impact.sx > frame.target.sx
               /\ lateral = "LEFT"  => frame.impact.sx < frame.target.sx

=============================================================================
